---- MODULE Spec2Model ----
(***************************************************************************)
(* MoltMarket: x402 payment gate, settlement ledger, revenue distribution  *)
(* and the simulated yield account, modelled from the JavaScript sources.  *)
(*                                                                         *)
(* JavaScript runs every handler to completion between two awaits, so one  *)
(* action of this model is the synchronous stretch of code between two     *)
(* suspension points of a handler.                                         *)
(***************************************************************************)
EXTENDS Integers, Sequences, FiniteSets, TLC

\* ------------------------------------------------------------------------
\* Bounds of the model
\* ------------------------------------------------------------------------
MaxEntries == 3      \* ledger entries created in one behaviour
MaxYieldOps == 4     \* yield account operations in one behaviour
MaxRestarts == 2     \* process restarts in one behaviour
MaxProviders == 2    \* length of a provider list handed to distributeRevenue
MaxGateSpends == 1   \* yield debits made while execute requests are in flight
MaxBoardOps == 4     \* bounty board calls in one behaviour
MaxLedgerOps == 5    \* ledger calls and reloads in one behaviour of SpecLedgerOps

\* ------------------------------------------------------------------------
\* Values
\* ------------------------------------------------------------------------
Null == "null"                 \* JavaScript null / undefined
Undefined == "undefined"       \* a property the caller did not pass
NoFile == [kind |-> "ENOENT", doc |-> <<>>]         \* no ledger.json
CorruptFile == [kind |-> "truncated", doc |-> <<>>]  \* unparsable ledger.json

InitialYield == 1420           \* let simulatedYield = 1420
NoResult == [success |-> FALSE]
Reqs == {"r1", "r2"}           \* requests / callers in flight

\* ------------------------------------------------------------------------
\* Decimal strings: amounts travel as strings and are parsed by BigInt(..)
\* ------------------------------------------------------------------------
\* (digit sequences; every amount that is formatted here is >= 0)
RECURSIVE toString(_)
toString(n) ==
  IF n < 10 THEN <<n>> ELSE Append(toString(n \div 10), n % 10)

RECURSIVE ParseDigits(_)
ParseDigits(s) ==
  IF Len(s) = 0 THEN 0
  ELSE ParseDigits(SubSeq(s, 1, Len(s) - 1)) * 10 + s[Len(s)]

BigInt(s) == ParseDigits(s)

\* BigInt division truncates toward zero
BigDiv(a, b) == IF a >= 0 THEN a \div b ELSE -((-a) \div b)

RECURSIVE SumSeq(_)
SumSeq(s) == IF Len(s) = 0 THEN 0 ELSE s[1] + SumSeq(Tail(s))

\* ------------------------------------------------------------------------
\* State
\* ------------------------------------------------------------------------
VARIABLES
  entries,             \* ledger.js: in-memory ledger
  file,                \* ledger.json on disk
  now,                 \* wall clock read by new Date()
  platformFeePercent,  \* config.platformFeePercent
  providerAddress,     \* config.providers[key].address
  req,                 \* POST /skills/:id/execute requests in flight
  call,                \* distributeRevenue activations, one per caller
  issued,              \* history: entries returned by recordIncomingPayment
  restarts,            \* history: number of process restarts
  simulatedYield,      \* treasury.js: yield balance
  yieldLog,            \* history: yield operations and their results
  ledgerLog,           \* history: the last ledger.js call and what it logged
  bounties,            \* skills.js: the bounty board
  boardLog,            \* history: the last bounty board call and its result
  wire,                \* history: the last x402 helper call, its input and output
  demoRunning,         \* api.js: let demoRunning
  demoProcess,         \* api.js: let demoProcess (place in children, 0 for null)
  children,            \* the demo child processes spawned so far
  demoLog              \* history: the last demo route or child event

vars == <<entries, file, now, platformFeePercent, providerAddress, req, call,
          issued, restarts, simulatedYield, yieldLog, ledgerLog, bounties,
          boardLog, wire, demoRunning, demoProcess, children, demoLog>>

configVars == <<platformFeePercent, providerAddress>>

ledgerVars == <<entries, file, now, issued, restarts, ledgerLog>>
boardVars == <<bounties, boardLog>>
yieldVars == <<simulatedYield, yieldLog>>
x402Vars == <<wire>>
demoVars == <<demoRunning, demoProcess, children, demoLog>>

\* ------------------------------------------------------------------------
\* ledger.js
\* ------------------------------------------------------------------------
PersistOutcomes == {"ok", "unchanged", "truncated"}

\* the string-valued properties of an entry that a caller may leave out
OptionalProps == {"txid", "from", "skillId"}

\* reading a property of an object: undefined when the object has none
read(e, f) == IF f \in DOMAIN e THEN e[f] ELSE Undefined

\* JSON.stringify of one object: a property whose value is undefined is
\* left out of the text
jsonObject(e) ==
  [f \in {g \in DOMAIN e : ~(g \in OptionalProps /\ e[g] = Undefined)} |-> e[f]]

\* JSON.stringify(entries, null, 2): the document holds the whole array
JSONstringify(es) ==
  [kind |-> "json", doc |-> [k \in 1..Len(es) |-> jsonObject(es[k])]]

\* JSON.parse(raw)
JSONparse(raw) == raw.doc

\* faulty variant: only the newest entry is written
saveNewestOnly(es, outcome, old) ==
  CASE outcome = "ok" -> JSONstringify(<<es[Len(es)]>>)
    [] outcome = "unchanged" -> old
    [] OTHER -> CorruptFile

\* saveLedger: writeFileSync overwrites the file; a failure is caught and
\* logged, leaving the old file or a truncated one behind
saveLedger(es, outcome, old) ==
  CASE outcome = "ok" -> JSONstringify(es)
    [] outcome = "unchanged" -> old
    [] OTHER -> CorruptFile

\* loadLedger: [] when the file is missing or cannot be read or parsed
loadLedger(f, readOk) ==
  IF f = NoFile THEN <<>>
  ELSE IF ~readOk \/ f = CorruptFile THEN <<>>
  ELSE JSONparse(f)

\* faulty variant: the id taken as the current length, without the + 1
newIncomingIdFromLength(es, txid, from, amount, skillId, ts) ==
  [id |-> Len(es), type |-> "incoming", txid |-> txid, from |-> from,
   amount |-> amount, skillId |-> skillId, timestamp |-> ts,
   distributions |-> <<>>]

newIncoming(es, txid, from, amount, skillId, ts) ==
  [id |-> Len(es) + 1, type |-> "incoming", txid |-> txid, from |-> from,
   amount |-> amount, skillId |-> skillId, timestamp |-> ts,
   distributions |-> <<>>]

newNegotiation(es, bountyId, oldReward, newReward, updatedBy, ts) ==
  [id |-> Len(es) + 1, type |-> "negotiation", bountyId |-> bountyId,
   oldReward |-> oldReward, newReward |-> newReward,
   updatedBy |-> IF updatedBy = Null THEN "anonymous-agent" ELSE updatedBy,
   timestamp |-> ts, distributions |-> <<>>]

\* faulty variant: the oldest entry is taken whatever id is asked for
findOldestEntry(es, ledgerEntryId) == IF es = <<>> THEN 0 ELSE 1

\* entries.find((e) => e.id === ledgerEntryId): index of the first match, 0 if none
findEntry(es, ledgerEntryId) ==
  IF \E k \in 1..Len(es) : es[k].id = ledgerEntryId
  THEN CHOOSE k \in 1..Len(es) :
         /\ es[k].id = ledgerEntryId
         /\ \A j \in 1..(k - 1) : es[j].id # ledgerEntryId
  ELSE 0

\* faulty variant: the new distribution replaces the list
withOnlyDistribution(es, ledgerEntryId, txid, toAddress, toName, amount, ts) ==
  LET k == findEntry(es, ledgerEntryId) IN
  IF k = 0 THEN es
  ELSE [es EXCEPT ![k].distributions =
          <<[txid |-> txid, toAddress |-> toAddress, toName |-> toName,
             amount |-> amount, timestamp |-> ts]>>]

\* the in-memory effect of recordDistribution
\* faulty variant: with no matching entry the newest entry takes the record
withDistributionOrNewest(es, ledgerEntryId, txid, toAddress, toName, amount, ts) ==
  LET k == IF findEntry(es, ledgerEntryId) = 0 THEN Len(es)
           ELSE findEntry(es, ledgerEntryId) IN
  IF k = 0 THEN es
  ELSE [es EXCEPT ![k].distributions =
          Append(@, [txid |-> txid, toAddress |-> toAddress, toName |-> toName,
                     amount |-> amount, timestamp |-> ts])]

withDistribution(es, ledgerEntryId, txid, toAddress, toName, amount, ts) ==
  LET k == findEntry(es, ledgerEntryId) IN
  IF k = 0 THEN es
  ELSE [es EXCEPT ![k].distributions =
          Append(@, [txid |-> txid, toAddress |-> toAddress, toName |-> toName,
                     amount |-> amount, timestamp |-> ts])]

\* ------------------------------------------------------------------------
\* Inputs
\* ------------------------------------------------------------------------
AmountValues == {0, 3, 5000}
Amounts == {toString(n) : n \in AmountValues}
FeePercents == {0, 40, 100}
Shares == {0, 30, 50, 100}
PaymentTxids == {"0xt1", "0xt2"}

\* config.providers[key].address is "" when the environment does not set it
ProviderPool ==
  {[name |-> n, address |-> IF n = "Provider C" THEN "" ELSE n, sharePercent |-> p] :
     n \in {"Provider A", "Provider B", "Provider C"}, p \in Shares}

ProviderLists == UNION {[1..n -> ProviderPool] : n \in 0..MaxProviders}

\* ------------------------------------------------------------------------
\* config.js: fee, provider wallets, skill registry
\* ------------------------------------------------------------------------
DefaultFeePercent == 40        \* PLATFORM_FEE_PERCENT || "40"
\* parseInt of a PLATFORM_FEE_PERCENT that is not a number (a value no
\* percentage takes stands for NaN)
NaN == -2147483647

ProviderKeys == {"a", "b", "c"}
AllProviders == [k \in ProviderKeys |-> "ST-" \o k]
NoProviders == [k \in ProviderKeys |-> ""]
OnlyProviderA == [k \in ProviderKeys |-> IF k = "a" THEN "ST-a" ELSE ""]
ProviderConfigs == {AllProviders, NoProviders, OnlyProviderA}

\* SKILLS (two of the four registered skills: one single-asset, one multi-asset)
SKILLS ==
  << [id |-> "wallet-auditor", price |-> toString(5000), asset |-> "STX",
      acceptedAssets |-> 0,
      providers |-> << [name |-> "chain-data-provider", addressKey |-> "a",
                        sharePercent |-> 70],
                       [name |-> "risk-analysis-provider", addressKey |-> "b",
                        sharePercent |-> 30] >>],
     [id |-> "alpha-leak", price |-> toString(10000), asset |-> "STX",
      acceptedAssets |-> 2,
      providers |-> << [name |-> "signal-detector", addressKey |-> "a",
                        sharePercent |-> 60],
                       [name |-> "alpha-analyst", addressKey |-> "c",
                        sharePercent |-> 40] >>] >>

NoSkill == [id |-> Null, price |-> <<>>, asset |-> "", acceptedAssets |-> 0,
            providers |-> <<>>]

\* faulty variant: an unknown id yields the first skill of the registry
getSkillOrFirst(skillId) ==
  IF \E k \in 1..Len(SKILLS) : SKILLS[k].id = skillId
  THEN SKILLS[CHOOSE k \in 1..Len(SKILLS) : SKILLS[k].id = skillId]
  ELSE SKILLS[1]

\* getSkill: SKILLS.find((s) => s.id === skillId) || null
getSkill(skillId) ==
  IF \E k \in 1..Len(SKILLS) : SKILLS[k].id = skillId
  THEN SKILLS[CHOOSE k \in 1..Len(SKILLS) : SKILLS[k].id = skillId]
  ELSE NoSkill

\* resolveProviders
resolveProviders(providers, addresses) ==
  [k \in 1..Len(providers) |->
     [name |-> providers[k].name,
      address |-> addresses[providers[k].addressKey],
      sharePercent |-> providers[k].sharePercent]]

\* ------------------------------------------------------------------------
\* Requests to POST /skills/:id/execute
\* ------------------------------------------------------------------------
NoPayment == [txid |-> Null, amount |-> <<>>, asset |-> Null, payer |-> Null,
              yieldPowered |-> FALSE]
NoHeaders == [yield |-> "", txid |-> "", signature |-> ""]

\* what the fetch of /extended/v1/tx/<txid> came to; "none": no fetch was made
NoLookup == [kind |-> "none", sender |-> ""]

NewReq ==
  [pc |-> "new", skillId |-> Null, headers |-> NoHeaders, x402 |-> NoPayment,
   executed |-> FALSE, status |-> 0, body |-> Null, entryId |-> 0,
   distributions |-> <<>>, lookup |-> NoLookup, connected |-> TRUE]

\* ------------------------------------------------------------------------
\* recordIncomingPayment / recordNegotiation / recordDistribution as calls
\* ------------------------------------------------------------------------
\* a decimal string with its sign, as BigInt.prototype.toString() prints it
toSignedString(n) ==
  [sign |-> IF n < 0 THEN "-" ELSE "", digits |-> toString(IF n < 0 THEN -n ELSE n)]

NoSummary ==
  [threw |-> FALSE, totalPayments |-> 0, totalIncomingMicroSTX |-> toSignedString(0),
   totalDistributedMicroSTX |-> toSignedString(0),
   platformBalanceMicroSTX |-> toSignedString(0)]

\* the inner loop of getLedgerSummary over one entry's distributions
distributedOf(e) ==
  SumSeq([j \in 1..Len(e.distributions) |-> BigInt(e.distributions[j].amount)])

\* getLedgerSummary: BigInt(entry.amount) throws a TypeError for an entry
\* without an amount
getLedgerSummary(es) ==
  IF \E k \in 1..Len(es) : "amount" \notin DOMAIN es[k]
  THEN [NoSummary EXCEPT !.threw = TRUE]
  ELSE LET totalIncoming == SumSeq([k \in 1..Len(es) |-> BigInt(es[k].amount)])
           totalDistributed == SumSeq([k \in 1..Len(es) |-> distributedOf(es[k])])
       IN [threw |-> FALSE, totalPayments |-> Len(es),
           totalIncomingMicroSTX |-> toSignedString(totalIncoming),
           totalDistributedMicroSTX |-> toSignedString(totalDistributed),
           platformBalanceMicroSTX |->
             toSignedString(totalIncoming - totalDistributed)]

NoLedgerCall ==
  [op |-> "none", n |-> 0, id |-> 0, found |-> FALSE, write |-> "none",
   errorLogged |-> FALSE, returned |-> FALSE, summary |-> NoSummary,
   before |-> <<>>]

\* faulty variant: the catch block of saveLedger stays silent
saveFailureSilent(outcome) == FALSE

\* saveLedger's catch block: log.error("Ledger", "Failed to save ledger: ..")
saveFailureLogged(outcome) == outcome # "ok"

\* what one call of the ledger module did: the entry it created or looked
\* for, how the write went, what reached the logger, the list it started from
ledgerCall(op, id, found, write) ==
  [op |-> op, n |-> ledgerLog.n + 1, id |-> id, found |-> found, write |-> write,
   errorLogged |-> found /\ saveFailureLogged(write), returned |-> TRUE,
   summary |-> NoSummary, before |-> entries]

recordIncomingPayment(txid, from, amount, skillId, persist) ==
  LET entry == newIncoming(entries, txid, from, amount, skillId, now)
      es == Append(entries, entry)
  IN /\ entries' = es
     /\ file' = saveLedger(es, persist, file)
     /\ now' = now + 1
     /\ issued' = Append(issued, [run |-> restarts, entry |-> entry])
     /\ ledgerLog' = ledgerCall("incoming", entry.id, TRUE, persist)

recordNegotiation(bountyId, oldReward, newReward, updatedBy, persist) ==
  LET entry == newNegotiation(entries, bountyId, oldReward, newReward, updatedBy, now)
      es == Append(entries, entry)
  IN /\ entries' = es
     /\ file' = saveLedger(es, persist, file)
     /\ now' = now + 1
     /\ issued' = Append(issued, [run |-> restarts, entry |-> entry])
     /\ ledgerLog' = ledgerCall("negotiation", entry.id, TRUE, persist)

\* the call recordDistribution({ledgerEntryId, txid, toAddress, toName, amount})
recordDistribution(ledgerEntryId, txid, toAddress, toName, amount, persist) ==
  LET es == withDistribution(entries, ledgerEntryId, txid, toAddress, toName,
                             amount, now)
      found == findEntry(entries, ledgerEntryId) # 0
  IN /\ entries' = es
     /\ file' = IF found THEN saveLedger(es, persist, file) ELSE file
     /\ now' = IF found THEN now + 1 ELSE now
     /\ ledgerLog' = ledgerCall("distribution", ledgerEntryId, found,
                                IF found THEN persist ELSE "none")

\* ------------------------------------------------------------------------
\* distributeRevenue (ledger.js): one activation per caller
\* ------------------------------------------------------------------------
IdleCall ==
  [pc |-> "idle", ledgerEntryId |-> 0, total |-> 0, platformFee |-> 0,
   distributable |-> 0, providers |-> <<>>, i |-> 0, results |-> <<>>]

\* faulty variant: the fee rounded up instead of down
platformFeeRoundedUp(total, feePercent) == BigDiv(total * feePercent + 99, 100)

platformFeeOf(total, feePercent) == BigDiv(total * feePercent, 100)

\* faulty variant: the share rounded up instead of down
providerAmountRoundedUp(distributable, provider) ==
  BigDiv(distributable * provider.sharePercent + 99, 100)

providerAmountOf(distributable, provider) ==
  BigDiv(distributable * provider.sharePercent, 100)

\* faulty variant: only a missing address makes the loop skip
skippedWithoutAddress(distributable, provider) == provider.address = ""

\* the loop's two "continue" conditions
skipped(distributable, provider) ==
  \/ provider.address = ""
  \/ providerAmountOf(distributable, provider) <= 0

\* faulty variant: the loop goes back to the provider it has just handled
nextAttemptAgain(providers, distributable, i) ==
  IF i > Len(providers) + 1 THEN i
  ELSE IF i > 1 THEN i - 1
  ELSE IF i > Len(providers) THEN i
  ELSE IF providers[i].address = "" THEN Len(providers) + 1
  ELSE i

\* index of the next provider at or after i that is paid; Len+1 if none
RECURSIVE nextAttempt(_, _, _)
nextAttempt(providers, distributable, i) ==
  IF i > Len(providers) THEN i
  ELSE IF skipped(distributable, providers[i])
       THEN nextAttempt(providers, distributable, i + 1)
       ELSE i

\* runs the loop up to the next await sendSTX(..) or to the return
advance(f, from) ==
  LET j == nextAttempt(f.providers, f.distributable, from) IN
  [f EXCEPT !.i = j,
            !.pc = IF j > Len(f.providers) THEN "done" ELSE "await"]

\* the call and its synchronous prefix; BigInt(NaN) throws a RangeError,
\* which rejects the promise the async function returns
distributeRevenue(ledgerEntryId, totalAmount, providers, feePercent) ==
  LET total == BigInt(totalAmount)
      fee == platformFeeOf(total, feePercent)
  IN IF feePercent = NaN
     THEN [IdleCall EXCEPT !.pc = "threw", !.ledgerEntryId = ledgerEntryId,
                           !.total = total, !.providers = providers]
     ELSE advance([pc |-> "loop", ledgerEntryId |-> ledgerEntryId,
                   total |-> total, platformFee |-> fee,
                   distributable |-> total - fee, providers |-> providers,
                   i |-> 1, results |-> <<>>], 1)

Errors == {"broadcast failed"}
DistTxids == {"0xd1"}

\* sendSTX resolved: record the distribution, push the result, go on
SendResolved(c, persists) ==
  /\ call[c].pc = "await"
  /\ \E txid \in DistTxids, persist \in persists :
       LET f == call[c]
           provider == f.providers[f.i]
           amount == toString(providerAmountOf(f.distributable, provider))
       IN /\ recordDistribution(f.ledgerEntryId, txid, provider.address,
                                provider.name, amount, persist)
          /\ call' = [call EXCEPT ![c] =
               advance([f EXCEPT !.results =
                          Append(@, [name |-> provider.name, txid |-> txid,
                                     amount |-> amount, error |-> Null])],
                       f.i + 1)]
  /\ UNCHANGED <<configVars, x402Vars, demoVars, boardVars, req, issued, restarts, yieldVars>>

\* faulty variant: the first failed transfer ends the loop
stopAtSendError(f, err) ==
  LET provider == f.providers[f.i]
      amount == toString(providerAmountOf(f.distributable, provider))
  IN [f EXCEPT !.results = Append(@, [name |-> provider.name, txid |-> Null,
                                      amount |-> amount, error |-> err]),
               !.i = Len(f.providers) + 1, !.pc = "done"]

\* faulty variant: the catch block pushes nothing
swallowSendError(f, err) == advance(f, f.i + 1)

\* the catch block of the loop body, and the loop going on
catchSendError(f, err) ==
  LET provider == f.providers[f.i]
      amount == toString(providerAmountOf(f.distributable, provider))
  IN advance([f EXCEPT !.results =
                 Append(@, [name |-> provider.name, txid |-> Null,
                            amount |-> amount, error |-> err])],
             f.i + 1)

\* sendSTX threw: the catch block logs and pushes an error result
SendRejected(c) ==
  /\ call[c].pc = "await"
  /\ \E err \in Errors : call' = [call EXCEPT ![c] = catchSendError(call[c], err)]
  /\ UNCHANGED <<ledgerVars, configVars, x402Vars, demoVars, boardVars, req, yieldVars>>

\* ------------------------------------------------------------------------
\* skills.js: the bounty board (in memory)
\* ------------------------------------------------------------------------
NoReward == <<>>               \* reward omitted or "": falsy
NoText == ""                   \* title / description omitted or "": falsy

NotOpenError == "Bounty is not open"
PosterError == "Only the bounty poster can update the reward"

\* `bounty-${bounties.length + 1}`
bountyIdOf(n) == <<"bounty-", n>>

\* the object literal of postBounty; updatedAt and negotiationHistory are
\* undefined until the first accepted update (0 and <<>> here)
newBounty(bs, title, description, reward, postedBy, ts) ==
  [id |-> bountyIdOf(Len(bs) + 1), title |-> title, description |-> description,
   reward |-> reward,
   postedBy |-> IF postedBy = Null THEN "anonymous-agent" ELSE postedBy,
   status |-> "open", postedAt |-> ts, submissions |-> <<>>,
   updatedAt |-> 0, negotiationHistory |-> <<>>]

\* postBounty: bounties.push(bounty)
postBounty(bs, title, description, reward, postedBy, ts) ==
  Append(bs, newBounty(bs, title, description, reward, postedBy, ts))

\* getBounty / bounties.find((b) => b.id === bountyId): index, 0 if none
getBounty(bs, bountyId) ==
  IF \E k \in 1..Len(bs) : bs[k].id = bountyId
  THEN CHOOSE k \in 1..Len(bs) :
         /\ bs[k].id = bountyId
         /\ \A j \in 1..(k - 1) : bs[j].id # bountyId
  ELSE 0

\* faulty variant: the filter is ignored
listBountiesUnfiltered(bs, status) == bs

\* listBounties(status)
listBounties(bs, status) ==
  IF status = Null THEN bs ELSE SelectSeq(bs, LAMBDA b : b.status = status)

\* faulty variant: the status check is skipped
submitBountyWorkAgain(bs, bountyId, submittedBy, result, ts) ==
  LET k == getBounty(bs, bountyId) IN
  IF k = 0 THEN [bounties |-> bs, result |-> Null]
  ELSE [bounties |->
          [bs EXCEPT ![k].submissions =
                       Append(@, [submittedBy |-> submittedBy, result |-> result,
                                  submittedAt |-> ts]),
                     ![k].status = "submitted"],
        result |-> "ok"]

\* faulty variant: the submission is stored but the status stays open
submitBountyWorkStaysOpen(bs, bountyId, submittedBy, result, ts) ==
  LET k == getBounty(bs, bountyId) IN
  IF k = 0 THEN [bounties |-> bs, result |-> Null]
  ELSE IF bs[k].status # "open" THEN [bounties |-> bs, result |-> NotOpenError]
  ELSE [bounties |->
          [bs EXCEPT ![k].submissions =
                       Append(@, [submittedBy |-> submittedBy, result |-> result,
                                  submittedAt |-> ts])],
        result |-> "ok"]

\* submitBountyWork: the board afterwards and what is returned
submitBountyWork(bs, bountyId, submittedBy, result, ts) ==
  LET k == getBounty(bs, bountyId) IN
  IF k = 0 THEN [bounties |-> bs, result |-> Null]
  ELSE IF bs[k].status # "open" THEN [bounties |-> bs, result |-> NotOpenError]
  ELSE [bounties |->
          [bs EXCEPT ![k].submissions =
                       Append(@, [submittedBy |-> submittedBy, result |-> result,
                                  submittedAt |-> ts]),
                     ![k].status = "submitted"],
        result |-> "ok"]

\* faulty variant: oldReward is read after the reward has been assigned
applyUpdateOldReadLate(bs, k, updates, ts) ==
  LET newReward == IF updates.reward # NoReward THEN updates.reward ELSE bs[k].reward
  IN [bounties |->
        [bs EXCEPT ![k].reward = newReward,
                   ![k].description =
                      IF updates.description # NoText
                      THEN updates.description ELSE @,
                   ![k].updatedAt = ts,
                   ![k].negotiationHistory =
                      Append(@, [action |-> "reward_updated",
                                 oldReward |-> newReward,
                                 newReward |-> newReward,
                                 timestamp |-> ts])],
      result |-> "ok"]

\* lines 613-626 of updateBounty: the accepted update of bounty k
applyUpdate(bs, k, updates, ts) ==
  LET oldReward == bs[k].reward
      newReward == IF updates.reward # NoReward THEN updates.reward ELSE oldReward
  IN [bounties |->
        [bs EXCEPT ![k].reward = newReward,
                   ![k].description =
                      IF updates.description # NoText
                      THEN updates.description ELSE @,
                   ![k].updatedAt = ts,
                   ![k].negotiationHistory =
                      Append(@, [action |-> "reward_updated",
                                 oldReward |-> oldReward,
                                 newReward |-> newReward,
                                 timestamp |-> ts])],
      result |-> "ok"]

\* faulty variant: the poster check is skipped
updateBountyAnyone(bs, bountyId, updates, ts) ==
  LET k == getBounty(bs, bountyId) IN
  IF k = 0 THEN [bounties |-> bs, result |-> Null]
  ELSE IF bs[k].status # "open" THEN [bounties |-> bs, result |-> NotOpenError]
  ELSE applyUpdate(bs, k, updates, ts)

\* faulty variant: the status check is skipped
updateBountyAnyStatus(bs, bountyId, updates, ts) ==
  LET k == getBounty(bs, bountyId) IN
  IF k = 0 THEN [bounties |-> bs, result |-> Null]
  ELSE IF updates.postedBy # Null /\ updates.postedBy # bs[k].postedBy
       THEN [bounties |-> bs, result |-> PosterError]
  ELSE applyUpdate(bs, k, updates, ts)

\* updateBounty: the board afterwards and what is returned
updateBounty(bs, bountyId, updates, ts) ==
  LET k == getBounty(bs, bountyId) IN
  IF k = 0 THEN [bounties |-> bs, result |-> Null]
  ELSE IF bs[k].status # "open" THEN [bounties |-> bs, result |-> NotOpenError]
  ELSE IF updates.postedBy # Null /\ updates.postedBy # bs[k].postedBy
       THEN [bounties |-> bs, result |-> PosterError]
  ELSE applyUpdate(bs, k, updates, ts)

NoUpdates == [reward |-> NoReward, description |-> NoText, postedBy |-> Null]

NoBoardCall ==
  [op |-> "none", n |-> 0, bountyId |-> <<>>, updates |-> NoUpdates, result |-> "none",
   status |-> 0, before |-> <<>>, filter |-> "", returned |-> <<>>]

\* ------------------------------------------------------------------------
\* x402 helpers (hiro.js) and the multi-asset 402 (paymentGate.js)
\* ------------------------------------------------------------------------
MaxAssets == 2                 \* options in one acceptedAssets list

\* JavaScript values that JSON can carry, as tagged trees; an object is the
\* list of its properties in insertion order
JNumber(n) == [t |-> "number", v |-> n]
JString(s) == [t |-> "string", v |-> s]
JBoolean(b) == [t |-> "boolean", v |-> b]
JNull == [t |-> "null", v |-> 0]
JArray(items) == [t |-> "array", v |-> items]
JObject(props) == [t |-> "object", v |-> props]
prop(k, val) == [k |-> k, val |-> val]

\* o[key] of an object that has the property
member(o, key) ==
  o.v[CHOOSE i \in 1..Len(o.v) : o.v[i].k = key].val

has(o, key) == \E i \in 1..Len(o.v) : o.v[i].k = key

\* Number.prototype.toString() of an integer
DecimalDigits == "0123456789"

RECURSIVE decimal(_)
decimal(n) ==
  IF n < 0 THEN "-" \o decimal(-n)
  ELSE IF n < 10 THEN SubSeq(DecimalDigits, n + 1, n + 1)
  ELSE decimal(n \div 10) \o SubSeq(DecimalDigits, (n % 10) + 1, (n % 10) + 1)

\* String(x): a string is itself, a number is printed in decimal
StringOf(x) == IF x.t = "number" THEN decimal(x.v) ELSE x.v

\* config.sbtcContract / getDefaultSBTCContract(network)
sbtcContractOf(network) ==
  IF network = "mainnet" THEN "SM3VDXK3WZZSA84XXFKAFAF15NNZX32CTSG82JFQ4.sbtc-token"
  ELSE "ST1F7QA2MDF17S807EPA36TSS8AMEFY4KA9TVGWXT.sbtc-token"

\* acceptedAssets = null
NoAcceptedAssets == [given |-> FALSE, list |-> <<>>]

\* faulty variant: acceptedAssets is ignored, one option is always emitted
buildPaymentRequiredSingle(p, network) ==
  JObject(<< prop("x402Version", JNumber(2)),
             prop("resource", JObject(<< prop("url", JString(p.resource)),
                                         prop("description", JString(p.description)) >>)),
             prop("accepts", JArray(<<
               JObject(<< prop("scheme", JString("exact")),
                          prop("network", JString("stacks:1")),
                          prop("amount", JString(StringOf(p.amount))),
                          prop("asset", JString(p.asset)),
                          prop("payTo", JString(p.payTo)),
                          prop("maxTimeoutSeconds", JNumber(p.maxTimeoutSeconds)) >>) >>)) >>)

\* buildPaymentRequired({payTo, amount, resource, description, asset,
\* acceptedAssets, maxTimeoutSeconds}), p being the argument object with the
\* defaults filled in; config.sbtcContract depends on the network
buildPaymentRequired(p, network) ==
  LET option(a, amt) ==
        JObject(<< prop("scheme", JString("exact")),
                   prop("network", JString("stacks:1")),
                   prop("amount", JString(StringOf(amt))),
                   prop("asset", JString(a)),
                   prop("payTo", JString(p.payTo)),
                   prop("maxTimeoutSeconds", JNumber(p.maxTimeoutSeconds)) >>
                \o (IF a = "sBTC"
                    THEN << prop("contractAddress", JString(sbtcContractOf(network))),
                            prop("tokenType", JString("sip-010")) >>
                    ELSE << >>))
      accepts ==
        IF p.acceptedAssets.given /\ Len(p.acceptedAssets.list) > 0
        THEN [k \in 1..Len(p.acceptedAssets.list) |->
                option(p.acceptedAssets.list[k].asset, p.acceptedAssets.list[k].amount)]
        ELSE << JObject(<< prop("scheme", JString("exact")),
                           prop("network", JString("stacks:1")),
                           prop("amount", JString(StringOf(p.amount))),
                           prop("asset", JString(p.asset)),
                           prop("payTo", JString(p.payTo)),
                           prop("maxTimeoutSeconds", JNumber(p.maxTimeoutSeconds)) >>) >>
  IN JObject(<< prop("x402Version", JNumber(2)),
                prop("resource", JObject(<< prop("url", JString(p.resource)),
                                            prop("description", JString(p.description)) >>)),
                prop("accepts", JArray(accepts)) >>)

\* the paymentRequired object of handleMultiAsset402; config.usdcxContract is
\* not defined in config.js, so the tokenContract of a USDCx option is
\* undefined and appears neither in the header nor in the body
multiAssetRequired(originalUrl, description, acceptedAssets, network, payTo) ==
  LET option(a, amt) ==
        JObject(<< prop("scheme", JString("exact")),
                   prop("network", JString(IF network = "mainnet" THEN "stacks:1"
                                           ELSE "stacks:2147483648")),
                   prop("amount", JString(StringOf(amt))),
                   prop("asset", JString(a)),
                   prop("payTo", JString(payTo)),
                   prop("maxTimeoutSeconds", JNumber(300)) >>
                \o (IF a = "sBTC"
                    THEN << prop("extra", JObject(<<
                              prop("tokenContract", JString(sbtcContractOf(network))),
                              prop("name", JString("sBTC")) >>)) >>
                    ELSE IF a = "USDCx"
                    THEN << prop("extra", JObject(<<
                              prop("name", JString("USDCx")),
                              prop("decimals", JNumber(6)) >>)) >>
                    ELSE << >>))
  IN JObject(<< prop("x402Version", JNumber(2)),
                prop("resource", JObject(<< prop("url", JString(originalUrl)),
                                            prop("description", JString(description)) >>)),
                prop("accepts",
                     JArray([k \in 1..Len(acceptedAssets.list) |->
                               option(acceptedAssets.list[k].asset,
                                      acceptedAssets.list[k].amount)])) >>)

\* buildPaymentPayload({transactionHex})
buildPaymentPayload(transactionHex) ==
  JObject(<< prop("x402Version", JNumber(2)),
             prop("scheme", JString("exact")),
             prop("network", JString("stacks:1")),
             prop("payload", JObject(<< prop("transaction", JString(transactionHex)) >>)) >>)

\* the responseObj of buildPaymentResponse({success, txid, network, errorReason})
paymentResponseObj(success, txid, network, errorReason) ==
  JObject(<< prop("success", JBoolean(success)),
             prop("txid", JString(txid)),
             prop("network", JString(network)) >>
          \o (IF ~success /\ errorReason # ""
              THEN << prop("errorReason", JString(errorReason)) >>
              ELSE << >>))

NoInput ==
  [payTo |-> "", amount |-> JNull, asset |-> "", acceptedAssets |-> NoAcceptedAssets]
NoDecoded == [done |-> FALSE, threw |-> FALSE, value |-> JNull]
NoWire ==
  [op |-> "none", input |-> NoInput, payload |-> JNull, header |-> <<>>,
   status |-> 0, decoded |-> NoDecoded]

\* ------------------------------------------------------------------------
\* SpecDist: record one payment, then distribute it (inputs unconstrained)
\* ------------------------------------------------------------------------
DistCaller == "r1"

InitCommon ==
  /\ entries = <<>>
  /\ file = NoFile
  /\ now = 1
  /\ call = [c \in Reqs |-> IdleCall]
  /\ issued = <<>>
  /\ restarts = 0
  /\ req = [r \in Reqs |-> NewReq]
  /\ simulatedYield = InitialYield
  /\ yieldLog = [ops |-> 0, accrued |-> 0, spent |-> 0,
                 last |-> [op |-> "none", amount |-> 0, before |-> InitialYield,
                           result |-> NoResult],
                 prev |-> [op |-> "none", amount |-> 0, before |-> InitialYield]]
  /\ ledgerLog = NoLedgerCall
  /\ bounties = <<>>
  /\ boardLog = NoBoardCall
  /\ wire = NoWire
  /\ demoRunning = FALSE
  /\ demoProcess = 0
  /\ children = <<>>
  /\ demoLog = [op |-> "none", n |-> 0, status |-> 0, running |-> FALSE,
                aliveBefore |-> {}]

InitDist ==
  /\ InitCommon
  /\ platformFeePercent \in FeePercents
  /\ providerAddress = AllProviders

DistRecord ==
  /\ entries = <<>>
  /\ \E amount \in Amounts, persist \in PersistOutcomes :
       recordIncomingPayment("0xt1", "ST1", amount, "wallet-auditor", persist)
  /\ UNCHANGED <<configVars, x402Vars, demoVars, boardVars, req, call, restarts, yieldVars>>

DistCall ==
  /\ call[DistCaller].pc = "idle"
  /\ entries # <<>>
  /\ \E id \in 1..2, totalAmount \in Amounts, providers \in ProviderLists :
       call' = [call EXCEPT ![DistCaller] =
                  distributeRevenue(id, totalAmount, providers, platformFeePercent)]
  /\ UNCHANGED <<ledgerVars, configVars, x402Vars, demoVars, boardVars, req, yieldVars>>

DistSendResolved == SendResolved(DistCaller, PersistOutcomes)
DistSendRejected == SendRejected(DistCaller)

NextDist == DistRecord \/ DistCall \/ DistSendResolved \/ DistSendRejected

SpecDist == InitDist /\ [][NextDist]_vars

\* ------------------------------------------------------------------------
\* Claims on distributeRevenue (SpecDist)
\* ------------------------------------------------------------------------
distributionsOf(id) ==
  IF findEntry(entries, id) = 0 THEN <<>>
  ELSE entries[findEntry(entries, id)].distributions

\* sum of the recorded amounts, parsed the way getLedgerSummary parses them
recordedSum(id) ==
  LET ds == distributionsOf(id)
  IN SumSeq([k \in 1..Len(ds) |-> BigInt(ds[k].amount)])

sharesSum(providers) ==
  SumSeq([k \in 1..Len(providers) |-> providers[k].sharePercent])

validDistInputs(f) ==
  /\ f.total >= 0
  /\ platformFeePercent \in 0..100
  /\ \A k \in 1..Len(f.providers) : f.providers[k].sharePercent \in 0..100

withinDistributable(f) ==
  /\ recordedSum(f.ledgerEntryId) <= f.distributable
  /\ f.distributable <= f.total
  /\ f.total - f.platformFee - recordedSum(f.ledgerEntryId) >= 0

\* C1 as stated: for every totalAmount >= 0, fee percent in 0..100 and shares
\* each in 0..100 (whatever they sum to), once distributeRevenue has completed
\* the recorded distributions of the entry sum to at most distributable, which
\* is at most totalAmount, leaving a non-negative remainder.
C1_AnySharesWithinDistributable ==
  \A c \in Reqs :
    (call[c].pc = "done" /\ validDistInputs(call[c])) => withinDistributable(call[c])

\* C1 amended: the same, for recipient lists whose shares sum to at most 100.
C1_SumWithinDistributable ==
  \A c \in Reqs :
    (/\ call[c].pc = "done"
     /\ validDistInputs(call[c])
     /\ sharesSum(call[c].providers) <= 100) => withinDistributable(call[c])

\* two recipients were paid and recorded, and rounding left a remainder
C1_Witness ==
  \E c \in Reqs :
    /\ call[c].pc = "done"
    /\ sharesSum(call[c].providers) <= 100
    /\ Len(distributionsOf(call[c].ledgerEntryId)) = 2
    /\ call[c].platformFee > 0
    /\ recordedSum(call[c].ledgerEntryId) < call[c].distributable

\* C2 as stated: every attempted payout of a distributeRevenue call is
\* recorded as a Distribution on its ledger entry, failed transfers (with an
\* error and no txReference) as well as successful ones.
C2_EveryAttemptRecorded ==
  \A c \in Reqs :
    (call[c].pc \in {"await", "done"}
       /\ findEntry(entries, call[c].ledgerEntryId) # 0)
    => Len(distributionsOf(call[c].ledgerEntryId)) = Len(call[c].results)

\* ------------------------------------------------------------------------
\* SpecLedger: the ledger module's calls in any order, and process restarts
\* ------------------------------------------------------------------------
LedgerAmounts == {toString(5000), toString(3000)}

LedgerRecordIncoming ==
  /\ Len(issued) < MaxEntries
  /\ \E txid \in PaymentTxids, amount \in LedgerAmounts, persist \in PersistOutcomes :
       recordIncomingPayment(txid, "agent", amount, "wallet-auditor", persist)
  /\ UNCHANGED <<configVars, x402Vars, demoVars, boardVars, req, call, restarts, yieldVars>>

LedgerRecordNegotiation ==
  /\ Len(issued) < MaxEntries
  /\ \E updatedBy \in {Null, "agent-a"}, persist \in PersistOutcomes :
       recordNegotiation("bounty-1", toString(5000), toString(3000), updatedBy, persist)
  /\ UNCHANGED <<configVars, x402Vars, demoVars, boardVars, req, call, restarts, yieldVars>>

\* the process exits and starts again: module state is rebuilt, the file stays
Restart ==
  /\ restarts < MaxRestarts
  /\ \E readOk \in BOOLEAN : entries' = loadLedger(file, readOk)
  /\ restarts' = restarts + 1
  /\ ledgerLog' = [NoLedgerCall EXCEPT !.op = "load", !.n = ledgerLog.n + 1,
                                       !.before = entries]
  /\ bounties' = <<>>
  /\ call' = [c \in Reqs |-> IdleCall]
  /\ req' = [r \in Reqs |-> NewReq]
  /\ simulatedYield' = InitialYield
  /\ UNCHANGED <<file, now, configVars, x402Vars, demoVars, boardLog, issued, yieldLog>>

InitLedger ==
  /\ InitCommon
  /\ platformFeePercent = DefaultFeePercent
  /\ providerAddress = AllProviders

NextLedger == LedgerRecordIncoming \/ LedgerRecordNegotiation \/ Restart

SpecLedger == InitLedger /\ [][NextLedger]_vars

\* C5: within one process run ledger ids are >= 1, unique and strictly
\* increasing in creation order, whatever the order of the
\* recordIncomingPayment and recordNegotiation calls.
C5_IdsUniqueIncreasingInRun ==
  /\ \A k \in 1..Len(entries) : entries[k].id = k
  /\ \A i \in 1..Len(issued) : issued[i].entry.id >= 1
  /\ \A i, j \in 1..Len(issued) :
       (i < j /\ issued[i].run = issued[j].run)
         => issued[i].entry.id < issued[j].entry.id

\* three entries of both kinds were created in one run
C5_Witness ==
  /\ Len(entries) = 3
  /\ \E i, j \in 1..Len(issued) :
       /\ i < j
       /\ issued[i].run = issued[j].run
       /\ issued[i].entry.type = "incoming"
       /\ issued[j].entry.type = "negotiation"

\* C6 as stated: an id once returned by recordIncomingPayment is never given
\* to a different entry later, also across restarts, failed writes and an
\* unreadable file.
C6_IdsNeverReused ==
  \A i, j \in 1..Len(issued) :
    (i < j /\ issued[i].entry.type = "incoming")
      => issued[i].entry.id # issued[j].entry.id

\* ------------------------------------------------------------------------
\* treasury.js: the simulated yield account, and its two endpoints
\* ------------------------------------------------------------------------
\* amounts a caller may send (JSON numbers; the code does not restrict them)
YieldAmounts == {-2000, 0, 620, 800, 1420}
RandomAccruals == 1..3        \* Math.floor(Math.random() * 3) + 1

\* faulty variant: strict comparison, so the exact balance cannot be spent
spendStrict(y, amount) ==
  IF y > amount
  THEN [yield |-> y - amount, result |-> [success |-> TRUE, remaining |-> y - amount]]
  ELSE [yield |-> y,
        result |-> [success |-> FALSE, remaining |-> y, needed |-> amount]]

\* spendSimulatedYield: the new balance and the returned object
spendSimulatedYield(y, amount) ==
  IF y >= amount
  THEN [yield |-> y - amount, result |-> [success |-> TRUE, remaining |-> y - amount]]
  ELSE [yield |-> y,
        result |-> [success |-> FALSE, remaining |-> y, needed |-> amount]]

\* accrueSimulatedYield with the accrual already resolved (amount ?? random)
accrueSimulatedYield(y, accrual) == y + accrual

\* resetSimulatedYield
resetSimulatedYield(amount) == amount

YieldStep(op, amount, y2, result) ==
  /\ simulatedYield' = y2
  /\ yieldLog' =
       [ops |-> yieldLog.ops + 1,
        accrued |-> yieldLog.accrued + (IF op = "accrue" THEN amount ELSE 0),
        spent |-> yieldLog.spent +
                    (IF op = "spend" /\ result.success THEN amount ELSE 0),
        last |-> [op |-> op, amount |-> amount, before |-> simulatedYield,
                  result |-> result],
        prev |-> [op |-> yieldLog.last.op, amount |-> yieldLog.last.amount,
                  before |-> yieldLog.last.before]]
  /\ UNCHANGED <<ledgerVars, configVars, x402Vars, demoVars, boardVars, req, call>>

\* accrueSimulatedYield(amount) / accrueSimulatedYield()
AccrueCall ==
  /\ yieldLog.ops < MaxYieldOps
  /\ \E a \in YieldAmounts \cup RandomAccruals :
    YieldStep("accrue", a, accrueSimulatedYield(simulatedYield, a), NoResult)

\* POST /treasury/yield/accrue: the body's amount is passed through unchecked;
\* without one the accrual is random
AccrueEndpoint ==
  /\ yieldLog.ops < MaxYieldOps
  /\ \E a \in YieldAmounts \cup RandomAccruals :
    YieldStep("accrue", a, accrueSimulatedYield(simulatedYield, a), NoResult)

\* spendSimulatedYield(amount) called directly
SpendCall ==
  /\ yieldLog.ops < MaxYieldOps
  /\ \E a \in YieldAmounts :
    LET r == spendSimulatedYield(simulatedYield, a)
    IN YieldStep("spend", a, r.yield, r.result)

\* POST /treasury/yield/spend: 400 unless amount is truthy and > 0
SpendEndpoint ==
  /\ yieldLog.ops < MaxYieldOps
  /\ \E a \in YieldAmounts :
    IF a = 0 \/ a <= 0
    THEN YieldStep("rejected", a, simulatedYield, NoResult)
    ELSE LET r == spendSimulatedYield(simulatedYield, a)
         IN YieldStep("spend", a, r.yield, r.result)

\* resetSimulatedYield(amount = 1420), exported for tests
ResetCall ==
  /\ yieldLog.ops < MaxYieldOps
  /\ \E a \in {InitialYield, 0} :
    YieldStep("reset", a, resetSimulatedYield(a), NoResult)

InitYield ==
  /\ InitCommon
  /\ platformFeePercent = DefaultFeePercent
  /\ providerAddress = AllProviders

NextYield == AccrueCall \/ AccrueEndpoint \/ SpendCall \/ SpendEndpoint \/ ResetCall

SpecYield == InitYield /\ [][NextYield]_vars

\* C8: spendSimulatedYield(amount) succeeds iff balance >= amount; on success
\* the balance drops by exactly amount and that is the reported remainder; on
\* failure the balance is unchanged and {success: false, remaining: balance,
\* needed: amount} is returned.
C8_SpendIffSufficient ==
  yieldLog.last.op = "spend" =>
    LET l == yieldLog.last IN
    /\ l.result.success <=> l.before >= l.amount
    /\ l.result.success =>
         /\ simulatedYield = l.before - l.amount
         /\ l.result = [success |-> TRUE, remaining |-> l.before - l.amount]
    /\ ~l.result.success =>
         /\ simulatedYield = l.before
         /\ l.result = [success |-> FALSE, remaining |-> l.before, needed |-> l.amount]

\* the spec's scenario: from 1420, spend(800) left 620 and a second spend(800)
\* was refused
C8_Witness ==
  /\ yieldLog.ops = 2
  /\ yieldLog.spent = 800
  /\ yieldLog.last = [op |-> "spend", amount |-> 800, before |-> 620,
                      result |-> [success |-> FALSE, remaining |-> 620, needed |-> 800]]

\* C9 as stated: the yield balance is a non-negative integer in every
\* reachable state.
C9_YieldNonNegative == simulatedYield \in Nat

\* SpecYieldRequests: only the two endpoints, requests served in any order
\* (each handler is synchronous, so a request is one step)
NextYieldRequests == AccrueEndpoint \/ SpendEndpoint

SpecYieldRequests == InitYield /\ [][NextYieldRequests]_vars

\* C10 as stated: whatever the order of the spend and accrue requests, the
\* total successfully spent never exceeds the initial balance plus the
\* accrued amounts.
C10_SpentWithinFunds == yieldLog.spent <= InitialYield + yieldLog.accrued

\* ------------------------------------------------------------------------
\* paymentGate.js / api.js: POST /skills/:id/execute
\* ------------------------------------------------------------------------
\* the x402-stacks middleware: without a payment-signature header it answers
\* 402 with the payment requirement, with one it settles through the
\* facilitator
baseMiddleware(headers) ==
  IF headers.signature = ""
  THEN [next |-> "402", x402 |-> NoPayment]
  ELSE [next |-> "settle", x402 |-> NoPayment]

\* faulty variant: a request without any proof header falls through to next()
paymentGateOpen(headers, skill) ==
  IF headers.yield # ""
  THEN [next |-> "next",
        x402 |-> [txid |-> headers.yield, amount |-> skill.price,
                  asset |-> "sBTC-yield", payer |-> "yield-engine",
                  yieldPowered |-> TRUE]]
  ELSE IF headers.txid # "" THEN [next |-> "lookup", x402 |-> NoPayment]
  ELSE IF headers.signature = "" THEN [next |-> "next", x402 |-> NoPayment]
  ELSE baseMiddleware(headers)

\* the synchronous part of the middleware returned by paymentGate(..)
paymentGate(headers, skill) ==
  IF headers.yield # ""
  THEN [next |-> "next",
        x402 |-> [txid |-> headers.yield, amount |-> skill.price,
                  asset |-> "sBTC-yield", payer |-> "yield-engine",
                  yieldPowered |-> TRUE]]
  ELSE IF headers.txid # "" THEN [next |-> "lookup", x402 |-> NoPayment]
  ELSE IF headers.signature = "" /\ skill.acceptedAssets > 1
       THEN [next |-> "402", x402 |-> NoPayment]      \* handleMultiAsset402
  ELSE baseMiddleware(headers)

HeaderSets ==
  {NoHeaders,
   [yield |-> "yield-payment-1", txid |-> "", signature |-> ""],
   [yield |-> "", txid |-> "0xt1", signature |-> ""],
   [yield |-> "", txid |-> "", signature |-> "sig"],
   [yield |-> "yield-payment-1", txid |-> "0xt1", signature |-> ""]}

RequestedSkills == {"wallet-auditor", "alpha-leak", "no-such-skill"}

\* the second middleware up to "await skill.execute(input)"
startExecute(q, x402) ==
  [q EXCEPT !.x402 = x402, !.executed = TRUE, !.pc = "executing"]

respond(q, status, body) ==
  [q EXCEPT !.status = status, !.body = body, !.pc = "responded"]

\* faulty variant: the gate takes the price of a yield proof from the balance
gateYieldDebited(y, x402) ==
  IF x402.yieldPowered THEN y - BigInt(x402.amount) ELSE y

\* the balance the wrapper leaves behind: it reads the headers and the
\* config and calls no function of treasury.js
gateYield(y, x402) == y

\* first middleware: getSkill, then the gate
Arrive(r) ==
  /\ req[r].pc = "new"
  /\ \E skillId \in RequestedSkills, headers \in HeaderSets :
       LET skill == getSkill(skillId)
           q == [req[r] EXCEPT !.skillId = skillId, !.headers = headers]
           g == paymentGate(headers, skill)
       IN /\ req' = [req EXCEPT ![r] =
               IF skill = NoSkill THEN respond(q, 404, "not found")
               ELSE CASE g.next = "next" -> startExecute(q, g.x402)
                      [] g.next = "lookup" -> [q EXCEPT !.pc = "lookup"]
                      [] g.next = "settle" -> [q EXCEPT !.pc = "settling"]
                      [] OTHER -> respond(q, 402, "payment required")]
          /\ simulatedYield' =
               IF skill = NoSkill THEN simulatedYield
               ELSE gateYield(simulatedYield, g.x402)
  /\ UNCHANGED <<ledgerVars, configVars, x402Vars, demoVars, boardVars, call, yieldLog>>

\* the outcomes of "await fetch(verifyUrl)" and "await verifyRes.json()":
\* ok with a record that names its sender, ok with a record that has no
\* sender_address, a response that is not ok, and a throw
LookupOutcomes ==
  { [kind |-> "ok", sender |-> "ST-sender"], [kind |-> "ok", sender |-> ""],
    [kind |-> "not ok", sender |-> ""], [kind |-> "threw", sender |-> ""] }

\* the payer the three branches put into req.x402
lookupPayer(outcome) ==
  CASE outcome.kind = "ok" ->
         IF outcome.sender # "" THEN outcome.sender ELSE "unknown"
    [] outcome.kind = "not ok" -> "pending"
    [] OTHER -> "unverified"

\* faulty variant: a txid that could not be verified is refused
rejectUnverifiedTxid(q, skill, outcome) ==
  IF outcome.kind = "ok"
  THEN startExecute([q EXCEPT !.lookup = outcome],
                    [txid |-> q.headers.txid, amount |-> skill.price,
                     asset |-> skill.asset, payer |-> lookupPayer(outcome),
                     yieldPowered |-> FALSE])
  ELSE respond([q EXCEPT !.lookup = outcome], 402, "payment required")

\* every branch sets req.x402 with the txid of the header and calls next()
acceptDirectTxid(q, skill, outcome) ==
  startExecute([q EXCEPT !.lookup = outcome],
               [txid |-> q.headers.txid, amount |-> skill.price,
                asset |-> skill.asset, payer |-> lookupPayer(outcome),
                yieldPowered |-> FALSE])

\* the fetch of the txid returned (ok / not ok) or threw: accepted either way
LookupDone(r) ==
  /\ req[r].pc = "lookup"
  /\ \E outcome \in LookupOutcomes :
       req' = [req EXCEPT ![r] =
                 acceptDirectTxid(req[r], getSkill(req[r].skillId), outcome)]
  /\ UNCHANGED <<ledgerVars, configVars, x402Vars, demoVars, boardVars, call, yieldVars>>

\* the x402-stacks middleware finished settling the signed transfer
SettleDone(r) ==
  /\ req[r].pc = "settling"
  /\ \E settled \in BOOLEAN :
       LET q == req[r]
           skill == getSkill(q.skillId)
       IN req' = [req EXCEPT ![r] =
            IF settled
            THEN startExecute(q, [txid |-> "0xsettled", amount |-> skill.price,
                                  asset |-> skill.asset, payer |-> "ST-sender",
                                  yieldPowered |-> FALSE])
            ELSE respond(q, 402, "payment required")]
  /\ UNCHANGED <<ledgerVars, configVars, x402Vars, demoVars, boardVars, call, yieldVars>>

\* skill.execute threw: 500, and the handler returns
ExecuteRejected(r) ==
  /\ req[r].pc = "executing"
  /\ req' = [req EXCEPT ![r] = respond(@, 500, "Skill execution failed")]
  /\ UNCHANGED <<ledgerVars, configVars, x402Vars, demoVars, boardVars, call, yieldVars>>

\* the disk is healthy while requests are served (SpecLedger and SpecDist
\* cover failing writes)
GatePersist == {"ok"}

\* skill.execute returned: record the payment, then distribute or respond
ExecuteResolved(r) ==
  /\ req[r].pc = "executing"
  /\ \E persist \in GatePersist :
       LET q == req[r]
           skill == getSkill(q.skillId)
           providers == resolveProviders(skill.providers, providerAddress)
           hasProviders == \E k \in 1..Len(providers) : providers[k].address # ""
           id == Len(entries) + 1
       IN /\ recordIncomingPayment(q.x402.txid, "agent", q.x402.amount,
                                   skill.id, persist)
          /\ IF hasProviders
             THEN /\ call' = [call EXCEPT ![r] =
                       distributeRevenue(id, q.x402.amount, providers,
                                         platformFeePercent)]
                  /\ req' = [req EXCEPT ![r] =
                       [q EXCEPT !.entryId = id, !.pc = "distributing"]]
             ELSE /\ call' = call
                  /\ req' = [req EXCEPT ![r] =
                       respond([q EXCEPT !.entryId = id], 200, "success")]
  /\ UNCHANGED <<configVars, x402Vars, demoVars, boardVars, restarts, yieldVars>>

GateSendResolved(r) == req[r].pc = "distributing" /\ SendResolved(r, GatePersist)
GateSendRejected(r) == req[r].pc = "distributing" /\ SendRejected(r)

\* faulty variant: the handler has no try/catch around distributeRevenue
escapeDistributionError(q, err) == respond(q, 500, err)

\* the handler's catch: distributions = [{ error: err.message }], and on to
\* res.json({success: true, ...})
catchDistributionError(q, err) ==
  respond([q EXCEPT !.distributions =
              <<[name |-> Null, txid |-> Null, amount |-> <<>>, error |-> err]>>],
          200, "success")

\* await distributeRevenue(..) threw
DistributeRejected(r) ==
  /\ req[r].pc = "distributing"
  /\ call[r].pc = "threw"
  /\ req' = [req EXCEPT ![r] =
       catchDistributionError(@, "The number NaN cannot be converted to a BigInt")]
  /\ UNCHANGED <<ledgerVars, configVars, x402Vars, demoVars, boardVars, call, yieldVars>>

\* distributeRevenue returned: res.json({success: true, ...})
Respond(r) ==
  /\ req[r].pc = "distributing"
  /\ call[r].pc = "done"
  /\ req' = [req EXCEPT ![r] =
       respond([@ EXCEPT !.distributions = call[r].results], 200, "success")]
  /\ UNCHANGED <<ledgerVars, configVars, x402Vars, demoVars, boardVars, call, yieldVars>>

\* POST /treasury/yield/spend while execute requests are being served
GateYieldSpend ==
  /\ yieldLog.ops < MaxGateSpends
  /\ \E a \in {800} :
       LET res == spendSimulatedYield(simulatedYield, a)
       IN YieldStep("spend", a, res.yield, res.result)

InitGate ==
  /\ InitCommon
  /\ platformFeePercent \in {DefaultFeePercent, NaN}
  /\ providerAddress \in ProviderConfigs

NextGate ==
  \/ \E r \in Reqs :
       \/ Arrive(r)
       \/ LookupDone(r)
       \/ SettleDone(r)
       \/ ExecuteRejected(r)
       \/ ExecuteResolved(r)
       \/ GateSendResolved(r)
       \/ GateSendRejected(r)
       \/ DistributeRejected(r)
       \/ Respond(r)
  \/ GateYieldSpend

SpecGate == InitGate /\ [][NextGate]_vars

\* ------------------------------------------------------------------------
\* Claims on the payment gate (SpecGate)
\* ------------------------------------------------------------------------
\* C3: a request for a registered skill that carries none of the three proof
\* headers is answered 402 with the payment requirement and leads to no
\* execution, no ledger entry and no distribution; a skill is executed, and a
\* ledger entry created, only for a request whose proof was accepted.
C3_NoProofNoExecution ==
  /\ \A r \in Reqs :
       /\ (/\ req[r].pc # "new"
           /\ req[r].headers = NoHeaders
           /\ getSkill(req[r].skillId) # NoSkill)
          => /\ req[r].pc = "responded"
             /\ req[r].status = 402
             /\ req[r].body = "payment required"
             /\ ~req[r].executed
             /\ req[r].entryId = 0
             /\ call[r] = IdleCall
       /\ req[r].executed => req[r].x402 # NoPayment
  /\ \A k \in 1..Len(entries) :
       \E r \in Reqs : req[r].entryId = k /\ req[r].x402 # NoPayment

\* one request without proof got its 402 from the x402 middleware while
\* another, with a proof, was executed and recorded
C3_Witness ==
  \E r, p \in Reqs :
    /\ req[r].headers = NoHeaders
    /\ req[r].skillId = "wallet-auditor"
    /\ req[r].status = 402
    /\ req[p].executed
    /\ req[p].entryId # 0

\* C4 as stated: a request presenting an x-yield-payment token is accepted by
\* the gate only if a successful debit of the yield account preceded it.
C4_YieldProofNeedsDebit ==
  \A r \in Reqs : req[r].x402.yieldPowered => yieldLog.spent > 0

\* C7 as stated: when the skill fails after the proof was accepted, the
\* response reports the failure and a ledger entry for the payment exists.
C7_FailedExecutionStillRecorded ==
  \A r \in Reqs :
    (req[r].pc = "responded" /\ req[r].status = 500) => req[r].entryId # 0

\* ------------------------------------------------------------------------
\* SpecBoard: the bounty board's calls and its two writing endpoints
\* ------------------------------------------------------------------------
BountyIds == {bountyIdOf(1), bountyIdOf(2)}

UpdateSets ==
  {[reward |-> toString(8000), description |-> NoText, postedBy |-> "agent-a"],
   [reward |-> toString(8000), description |-> NoText, postedBy |-> "agent-b"],
   [reward |-> NoReward, description |-> "d2", postedBy |-> Null],
   [reward |-> toString(3000), description |-> NoText, postedBy |-> Null]}

PatchBodies ==
  {NoUpdates,
   [reward |-> toString(3000), description |-> "d3", postedBy |-> "agent-a"],
   [reward |-> toString(3000), description |-> NoText, postedBy |-> "agent-b"]}

boardCall(op, bountyId, updates, result, status) ==
  [op |-> op, n |-> boardLog.n + 1, bountyId |-> bountyId, updates |-> updates,
   result |-> result, status |-> status, before |-> bounties, filter |-> "",
   returned |-> <<>>]

boardUnchanged ==
  UNCHANGED <<entries, file, issued, restarts, ledgerLog, configVars, x402Vars, demoVars, req, call,
              yieldVars>>

\* postBounty({title, description, reward, postedBy}) called directly
PostBountyCall ==
  /\ boardLog.n < MaxBoardOps
  /\ \E postedBy \in {Null, "agent-a"} :
       /\ bounties' = postBounty(bounties, "Audit", "d1", toString(5000),
                                 postedBy, now)
       /\ boardLog' = boardCall("post", bountyIdOf(Len(bounties) + 1), NoUpdates,
                                "ok", 0)
  /\ now' = now + 1
  /\ boardUnchanged

\* POST /bounties: 400 unless title and description are given
PostBountyEndpoint ==
  /\ boardLog.n < MaxBoardOps
  /\ \E title \in {NoText, "Audit"} :
       IF title = NoText
       THEN /\ boardLog' = boardCall("post", <<>>, NoUpdates, "missing fields", 400)
            /\ UNCHANGED <<bounties, now>>
       ELSE /\ bounties' = postBounty(bounties, title, "d1", toString(5000),
                                      "agent-a", now)
            /\ boardLog' = boardCall("post", bountyIdOf(Len(bounties) + 1),
                                     NoUpdates, "ok", 201)
            /\ now' = now + 1
  /\ boardUnchanged

\* updateBounty(bountyId, updates) called directly
UpdateBountyCall ==
  /\ boardLog.n < MaxBoardOps
  /\ \E bountyId \in BountyIds, updates \in UpdateSets :
       LET u == updateBounty(bounties, bountyId, updates, now)
       IN /\ bounties' = u.bounties
          /\ boardLog' = boardCall("update", bountyId, updates, u.result, 0)
          /\ now' = IF u.result = "ok" THEN now + 1 ELSE now
  /\ boardUnchanged

\* PATCH /bounties/:id
PatchBountyEndpoint ==
  /\ boardLog.n < MaxBoardOps
  /\ \E bountyId \in BountyIds, body \in PatchBodies :
       IF body.reward = NoReward /\ body.description = NoText
       THEN /\ boardLog' = boardCall("patch", bountyId, body, "nothing to update", 400)
            /\ UNCHANGED <<bounties, now>>
       ELSE LET u == updateBounty(bounties, bountyId, body, now)
            IN /\ bounties' = u.bounties
               /\ boardLog' = boardCall("update", bountyId, body, u.result,
                                 IF u.result = Null THEN 404
                                 ELSE IF u.result = "ok" THEN 200 ELSE 400)
               /\ now' = IF u.result = "ok" THEN now + 1 ELSE now
  /\ boardUnchanged

\* submitBountyWork({bountyId, submittedBy, result}) called directly
SubmitBountyWorkCall ==
  /\ boardLog.n < MaxBoardOps
  /\ \E bountyId \in BountyIds :
       LET u == submitBountyWork(bounties, bountyId, "agent-b", "report", now)
       IN /\ bounties' = u.bounties
          /\ boardLog' = boardCall("submit", bountyId, NoUpdates, u.result, 0)
          /\ now' = IF u.result = "ok" THEN now + 1 ELSE now
  /\ boardUnchanged

\* ids asked for: issued ones and the test's "bounty-999"
LookupIds == BountyIds \cup {bountyIdOf(999)}

\* status filters: none, the two statuses in use, and one no bounty has
StatusFilters == {Null, "open", "submitted", "closed"}

\* getBounty(id) / GET /bounties/:id: the bounty (200) or null (404); reads
\* only, so the call is not counted against MaxBoardOps
GetBountyCall ==
  /\ boardLog.op # "get"
  /\ \E bountyId \in LookupIds :
       LET k == getBounty(bounties, bountyId)
       IN boardLog' = [boardCall("get", bountyId, NoUpdates,
                                 IF k = 0 THEN Null ELSE "ok",
                                 IF k = 0 THEN 404 ELSE 200)
                         EXCEPT !.n = boardLog.n,
                                !.returned = IF k = 0 THEN <<>> ELSE <<bounties[k]>>]
  /\ UNCHANGED <<bounties, now>>
  /\ boardUnchanged

\* listBounties(status) / GET /bounties?status=..
ListBountiesCall ==
  /\ boardLog.op # "list"
  /\ \E status \in StatusFilters :
       boardLog' = [boardCall("list", <<>>, NoUpdates, "ok", 200)
                      EXCEPT !.n = boardLog.n,
                             !.filter = status,
                             !.returned = listBounties(bounties, status)]
  /\ UNCHANGED <<bounties, now>>
  /\ boardUnchanged

InitBoard ==
  /\ InitCommon
  /\ platformFeePercent = DefaultFeePercent
  /\ providerAddress = AllProviders

NextBoard ==
  \/ PostBountyCall
  \/ PostBountyEndpoint
  \/ UpdateBountyCall
  \/ PatchBountyEndpoint
  \/ SubmitBountyWorkCall
  \/ GetBountyCall
  \/ ListBountiesCall

SpecBoard == InitBoard /\ [][NextBoard]_vars

\* ------------------------------------------------------------------------
\* Claims on the bounty board (SpecBoard)
\* ------------------------------------------------------------------------
\* the bounty the last call addressed, as it was before the call (0 if none)
addressed == getBounty(boardLog.before, boardLog.bountyId)

byNonPoster ==
  /\ boardLog.op = "update"
  /\ addressed # 0
  /\ boardLog.updates.postedBy # Null
  /\ boardLog.updates.postedBy # boardLog.before[addressed].postedBy

\* C11 as stated: updateBounty with a postedBy that is supplied and differs
\* from the bounty's poster returns the authorization error and mutates
\* nothing, whatever the bounty's status.
C11_NonPosterGetsAuthorizationError ==
  byNonPoster => (boardLog.result = PosterError /\ bounties = boardLog.before)

\* C11 amended: on an open bounty such an update returns the authorization
\* error, on a submitted one the "Bounty is not open" error; in both cases
\* reward, description, updatedAt and negotiationHistory (the whole board) are
\* unchanged.
C11_NonPosterRejected ==
  byNonPoster =>
    /\ boardLog.result =
         IF boardLog.before[addressed].status = "open" THEN PosterError
         ELSE NotOpenError
    /\ bounties = boardLog.before

\* the spec's scenario: the poster raised 5000 to 8000, then "agent-b" tried
C11_Witness ==
  /\ byNonPoster
  /\ boardLog.result = PosterError
  /\ boardLog.updates.postedBy = "agent-b"
  /\ bounties[addressed].reward = toString(8000)
  /\ Len(bounties[addressed].negotiationHistory) = 1
  /\ bounties[addressed].negotiationHistory[1].oldReward = toString(5000)
  /\ bounties[addressed].negotiationHistory[1].newReward = toString(8000)

\* C12: reward, description and negotiationHistory of a bounty that is not
\* open are the same after every call, and an update addressed to a submitted
\* bounty returns the "Bounty is not open" error and changes nothing.
C12_EditsOnlyWhileOpen ==
  /\ \A k \in 1..Len(boardLog.before) :
       boardLog.before[k].status # "open" =>
         /\ k <= Len(bounties)
         /\ bounties[k].reward = boardLog.before[k].reward
         /\ bounties[k].description = boardLog.before[k].description
         /\ bounties[k].negotiationHistory = boardLog.before[k].negotiationHistory
  /\ (/\ boardLog.op = "update"
      /\ addressed # 0
      /\ boardLog.before[addressed].status = "submitted")
     => (boardLog.result = NotOpenError /\ bounties = boardLog.before)

\* a bounty was negotiated, then submitted, then the poster tried to edit it
C12_Witness ==
  /\ boardLog.op = "update"
  /\ addressed # 0
  /\ boardLog.before[addressed].status = "submitted"
  /\ boardLog.updates.postedBy = boardLog.before[addressed].postedBy
  /\ Len(bounties[addressed].negotiationHistory) = 1
  /\ boardLog.result = NotOpenError

\* C13: a bounty is created open with no submission; its status goes from
\* open to submitted only by an accepted submitBountyWork, which adds the one
\* submission it ever has, and never goes back; submitBountyWork on a bounty
\* that is not open returns "Bounty is not open" and changes nothing.
C13_SubmittedExactlyOnce ==
  /\ \A k \in 1..Len(bounties) :
       /\ bounties[k].status \in {"open", "submitted"}
       /\ Len(bounties[k].submissions) = IF bounties[k].status = "open" THEN 0 ELSE 1
  /\ \A k \in 1..Len(bounties) :
       k > Len(boardLog.before) =>
         (boardLog.op = "post" /\ bounties[k].status = "open")
  /\ \A k \in 1..Len(boardLog.before) :
       /\ k <= Len(bounties)
       /\ bounties[k].status # boardLog.before[k].status =>
            /\ boardLog.op = "submit"
            /\ boardLog.result = "ok"
            /\ boardLog.bountyId = bounties[k].id
            /\ boardLog.before[k].status = "open"
            /\ bounties[k].status = "submitted"
       /\ bounties[k].submissions # boardLog.before[k].submissions =>
            bounties[k].status # boardLog.before[k].status
  /\ (boardLog.op = "submit" /\ addressed # 0) =>
       IF boardLog.before[addressed].status = "open"
       THEN boardLog.result = "ok" /\ bounties[addressed].status = "submitted"
       ELSE boardLog.result = NotOpenError /\ bounties = boardLog.before

\* a second submitBountyWork on the same bounty was refused
C13_Witness ==
  /\ boardLog.op = "submit"
  /\ addressed # 0
  /\ boardLog.before[addressed].status = "submitted"
  /\ boardLog.result = NotOpenError
  /\ Len(bounties[addressed].submissions) = 1

\* ------------------------------------------------------------------------
\* SpecLedgerOps: every call of the ledger module, and reloads
\* ------------------------------------------------------------------------
IncomingArgs ==
  {[txid |-> "0xt1", from |-> "ST1", amount |-> toString(5000),
    skillId |-> "wallet-auditor"],
   [txid |-> "0xt2", from |-> Undefined, amount |-> toString(3000),
    skillId |-> Undefined]}

OpsRecordIncoming ==
  /\ ledgerLog.n < MaxLedgerOps
  /\ \E a \in IncomingArgs, persist \in PersistOutcomes :
       recordIncomingPayment(a.txid, a.from, a.amount, a.skillId, persist)
  /\ UNCHANGED <<configVars, x402Vars, demoVars, boardVars, req, call, restarts, yieldVars>>

OpsRecordNegotiation ==
  /\ ledgerLog.n < MaxLedgerOps
  /\ \E persist \in PersistOutcomes :
       recordNegotiation("bounty-1", toString(5000), toString(8000), "agent-a",
                         persist)
  /\ UNCHANGED <<configVars, x402Vars, demoVars, boardVars, req, call, restarts, yieldVars>>

OpsRecordDistribution ==
  /\ ledgerLog.n < MaxLedgerOps
  /\ \E ledgerEntryId \in 1..2, persist \in PersistOutcomes :
       recordDistribution(ledgerEntryId, "0xd1", "ST-a", "chain-data-provider",
                          toString(2100), persist)
  /\ UNCHANGED <<configVars, x402Vars, demoVars, boardVars, req, call, issued, restarts, yieldVars>>

\* GET /ledger/summary
OpsGetLedgerSummary ==
  /\ ledgerLog.n < MaxLedgerOps
  /\ ledgerLog' = [ledgerCall("summary", 0, FALSE, "none") EXCEPT
                     !.summary = getLedgerSummary(entries),
                     !.returned = ~getLedgerSummary(entries).threw]
  /\ UNCHANGED <<entries, file, now, issued, restarts, configVars, x402Vars, demoVars, boardVars, req,
                 call, yieldVars>>

OpsRestart == ledgerLog.n < MaxLedgerOps /\ Restart

NextLedgerOps ==
  \/ OpsRecordIncoming
  \/ OpsRecordNegotiation
  \/ OpsRecordDistribution
  \/ OpsGetLedgerSummary
  \/ OpsRestart

SpecLedgerOps == InitLedger /\ [][NextLedgerOps]_vars

\* ------------------------------------------------------------------------
\* Claims on the ledger module (SpecLedgerOps)
\* ------------------------------------------------------------------------
RecordOps == {"incoming", "distribution", "negotiation"}

isPrefix(a, b) == Len(a) <= Len(b) /\ SubSeq(b, 1, Len(a)) = a

unchangedButDistributions(old, new) ==
  /\ DOMAIN new = DOMAIN old
  /\ \A f \in DOMAIN old \ {"distributions"} : new[f] = old[f]
  /\ isPrefix(old.distributions, new.distributions)

\* C14: no call of the ledger module removes or reorders an entry or changes
\* any property of an existing entry other than distributions, and the
\* distributions of an entry only grow at the end.
C14_AppendOnly ==
  ledgerLog.op \in RecordOps \cup {"summary"} =>
    /\ Len(entries) >= Len(ledgerLog.before)
    /\ \A k \in 1..Len(ledgerLog.before) :
         unchangedButDistributions(ledgerLog.before[k], entries[k])

\* a second distribution was appended to the first of several entries
C14_Witness ==
  /\ ledgerLog.op = "distribution"
  /\ ledgerLog.id = 1
  /\ Len(entries) >= 2
  /\ Len(entries[1].distributions) = 2
  /\ Len(ledgerLog.before[1].distributions) = 1

\* C15 as stated: after any sequence of recordIncomingPayment,
\* recordDistribution and recordNegotiation calls getLedgerSummary returns
\* totalIncoming = the sum of the entries' amounts, totalDistributed = the sum
\* of the recorded distributions' amounts and balance = their difference.
C15_SummaryTotals ==
  ledgerLog.op = "summary" =>
    /\ ledgerLog.returned
    /\ ~ledgerLog.summary.threw
    /\ LET amounts == [k \in 1..Len(entries) |-> ParseDigits(entries[k].amount)]
           paid == [k \in 1..Len(entries) |-> distributedOf(entries[k])]
       IN /\ ledgerLog.summary.totalIncomingMicroSTX =
               toSignedString(SumSeq(amounts))
          /\ ledgerLog.summary.totalDistributedMicroSTX =
               toSignedString(SumSeq(paid))
          /\ ledgerLog.summary.platformBalanceMicroSTX =
               toSignedString(SumSeq(amounts) - SumSeq(paid))

\* C16: when the write of the ledger file fails during recordIncomingPayment,
\* recordDistribution (on an existing entry) or recordNegotiation, the entry
\* or distribution is in the in-memory ledger all the same, the call returns
\* and the failure was reported with log.error.
C16_FailedWriteKeepsAppend ==
  (/\ ledgerLog.op \in RecordOps
   /\ ledgerLog.found
   /\ ledgerLog.write \in {"unchanged", "truncated"})
  => /\ ledgerLog.returned
     /\ ledgerLog.errorLogged
     /\ file # JSONstringify(entries)
     /\ IF ledgerLog.op = "distribution"
        THEN LET k == findEntry(entries, ledgerLog.id) IN
             /\ Len(entries) = Len(ledgerLog.before)
             /\ Len(entries[k].distributions) =
                  Len(ledgerLog.before[k].distributions) + 1
        ELSE /\ Len(entries) = Len(ledgerLog.before) + 1
             /\ SubSeq(entries, 1, Len(ledgerLog.before)) = ledgerLog.before
             /\ entries[Len(entries)].id = ledgerLog.id
             /\ entries[Len(entries)].type = ledgerLog.op

\* a distribution was recorded in memory while its write left a truncated file
C16_Witness ==
  /\ ledgerLog.op = "distribution"
  /\ ledgerLog.found
  /\ ledgerLog.write = "truncated"
  /\ ledgerLog.errorLogged
  /\ file = CorruptFile
  /\ Len(entries[findEntry(entries, ledgerLog.id)].distributions) = 1

\* what a reader of the ledger sees is the same in both lists
sameLedger(a, b) ==
  /\ Len(a) = Len(b)
  /\ \A k \in 1..Len(a) :
       \A f \in DOMAIN a[k] \cup DOMAIN b[k] : read(a[k], f) = read(b[k], f)

\* C17: when recordIncomingPayment, recordDistribution (on an existing entry)
\* or recordNegotiation has returned and its write did not fail, the file
\* holds the whole in-memory list, so that loading it gives back the same
\* entries with the same distributions.
C17_PersistedBeforeReturn ==
  (/\ ledgerLog.op \in RecordOps
   /\ ledgerLog.found
   /\ ledgerLog.write = "ok")
  => /\ file = JSONstringify(entries)
     /\ sameLedger(loadLedger(file, TRUE), entries)

\* a write succeeded after an earlier one had failed, with a distribution and
\* an entry whose optional properties were not passed
C17_Witness ==
  /\ ledgerLog.op \in RecordOps
  /\ ledgerLog.write = "ok"
  /\ Len(entries) >= 2
  /\ \E k \in 1..Len(entries) :
       entries[k].type = "incoming" /\ read(entries[k], "from") = Undefined
  /\ \E k \in 1..Len(entries) : Len(entries[k].distributions) = 1
  /\ ~sameLedger(loadLedger(file, TRUE), ledgerLog.before)

\* ------------------------------------------------------------------------
\* Claims on the arithmetic and the loop of distributeRevenue
\* ------------------------------------------------------------------------
\* q is floor(num / 100)
isFloorOfHundredth(q, num) == q * 100 <= num /\ num < (q + 1) * 100

\* C18 (SpecDist): for a total >= 0 and fee and share percents in 0..100,
\* fee = floor(total * feePercent / 100) >= 0, distributable = total - fee,
\* and every amount sent is floor(distributable * sharePercent / 100) of its
\* recipient: positive, at most distributable and never above the exact
\* proportional share.
C18_FloorArithmetic ==
  \A c \in Reqs :
    LET f == call[c] IN
    (f.pc # "idle" /\ validDistInputs(f)) =>
      /\ isFloorOfHundredth(f.platformFee, f.total * platformFeePercent)
      /\ f.platformFee >= 0
      /\ f.distributable = f.total - f.platformFee
      /\ \A k \in 1..Len(f.results) :
           LET share == ParseDigits(f.results[k].amount) IN
           /\ share >= 0
           /\ share <= f.distributable
           /\ \E j \in 1..Len(f.providers) :
                /\ f.providers[j].name = f.results[k].name
                /\ isFloorOfHundredth(share,
                                      f.distributable * f.providers[j].sharePercent)
                /\ share * 100 <= f.distributable * f.providers[j].sharePercent

\* the spec's scenario: 5000 at 40% with two recipients at 50%
C18_Witness ==
  \E c \in Reqs :
    /\ call[c].pc = "done"
    /\ call[c].total = 5000
    /\ platformFeePercent = 40
    /\ call[c].platformFee = 2000
    /\ call[c].distributable = 3000
    /\ Len(call[c].providers) = 2
    /\ \A j \in 1..2 : call[c].providers[j].sharePercent = 50
    /\ Len(call[c].results) = 2
    /\ \A k \in 1..2 : call[c].results[k].amount = toString(1500)

\* providers before index i that the loop does not skip
attemptedBefore(f, i) ==
  {j \in 1..Len(f.providers) : j < i /\ ~skipped(f.distributable, f.providers[j])}

\* C19 (SpecDist): in a distributeRevenue call the loop only moves forward,
\* every step adds exactly one result for the recipient it awaited and at most
\* one Distribution, and results and Distributions already there stay as they
\* are; so each recipient in the list is attempted at most once and has at
\* most one Distribution on the entry.
C19_AttemptedAtMostOnce ==
  [][\A c \in Reqs :
       (call[c].pc = "await" /\ call'[c] # call[c]) =>
         LET f == call[c]
             g == call'[c]
             before == distributionsOf(f.ledgerEntryId)
             after == distributionsOf(f.ledgerEntryId)'
         IN /\ g.i > f.i
            /\ g.providers = f.providers
            /\ Len(g.results) = Len(f.results) + 1
            /\ isPrefix(f.results, g.results)
            /\ g.results[Len(g.results)].name = f.providers[f.i].name
            /\ Len(g.results) = Cardinality(attemptedBefore(g, g.i))
            /\ isPrefix(before, after)
            /\ Len(after) <= Len(before) + 1
            /\ Len(after) <= Len(g.results)]_vars

\* both recipients of a list were paid, each once
C19_Witness ==
  \E c \in Reqs :
    /\ call[c].pc = "done"
    /\ Len(call[c].providers) = 2
    /\ Len(call[c].results) = 2
    /\ \A k \in 1..2 : call[c].results[k].error = Null
    /\ Len(distributionsOf(call[c].ledgerEntryId)) = 2
    /\ distributionsOf(call[c].ledgerEntryId)[1].toName = call[c].providers[1].name
    /\ distributionsOf(call[c].ledgerEntryId)[2].toName = call[c].providers[2].name

\* the recipients the loop does not skip, in list order
expectedAttempts(f) ==
  SelectSeq(f.providers, LAMBDA p : ~skipped(f.distributable, p))

\* C20 (SpecGate): when distributeRevenue has returned, its results list every
\* recipient that is not skipped, in order, each with its own floor share,
\* whichever transfers failed; and the response of an execution whose payment
\* was recorded is 200 with success: true and carries those results.
C20_FailuresDoNotStopPayouts ==
  \A r \in Reqs :
    /\ call[r].pc = "done" =>
         LET f == call[r]
             e == expectedAttempts(f)
         IN /\ Len(f.results) = Len(e)
            /\ \A k \in 1..Len(e) :
                 /\ f.results[k].name = e[k].name
                 /\ ParseDigits(f.results[k].amount) * 100 <=
                      f.distributable * e[k].sharePercent
                 /\ f.distributable * e[k].sharePercent <
                      (ParseDigits(f.results[k].amount) + 1) * 100
    /\ (req[r].pc = "responded" /\ req[r].entryId # 0) =>
         /\ req[r].status = 200
         /\ req[r].body = "success"
         /\ call[r].pc = "done" => req[r].distributions = call[r].results

\* the first payout of an execution failed, the second went through, and the
\* response said success
C20_Witness ==
  \E r \in Reqs :
    /\ req[r].pc = "responded"
    /\ req[r].status = 200
    /\ req[r].body = "success"
    /\ Len(req[r].distributions) = 2
    /\ req[r].distributions[1].error # Null
    /\ req[r].distributions[2].error = Null
    /\ Len(distributionsOf(req[r].entryId)) = 1

\* a recipient without address, or whose share of a non-negative
\* distributable is below one unit
toBeSkipped(f, j) ==
  \/ f.providers[j].address = ""
  \/ f.distributable * f.providers[j].sharePercent < 100

\* C21 (SpecDist): a recipient whose address is empty or whose share is <= 0
\* is never awaited on, has no result and no Distribution: the call waits only
\* for recipients with an address and a positive share, the results and the
\* Distributions are as many as such recipients handled so far and all carry
\* a positive amount and, for Distributions, a non-empty address.
C21_SkippedNotAttempted ==
  \A c \in Reqs :
    LET f == call[c]
        paid == {j \in 1..Len(f.providers) : j < f.i /\ ~toBeSkipped(f, j)}
        ds == distributionsOf(f.ledgerEntryId)
    IN (f.pc \in {"await", "done"} /\ validDistInputs(f)) =>
         /\ f.pc = "await" => ~toBeSkipped(f, f.i)
         /\ Len(f.results) = Cardinality(paid)
         /\ \A k \in 1..Len(f.results) : ParseDigits(f.results[k].amount) > 0
         /\ Len(ds) <= Cardinality(paid)
         /\ \A k \in 1..Len(ds) :
              ds[k].toAddress # "" /\ ParseDigits(ds[k].amount) > 0

\* a call ended with nothing sent: one recipient had no address, the share of
\* the other rounded down to 0
C21_Witness ==
  \E c \in Reqs :
    /\ call[c].pc = "done"
    /\ call[c].distributable > 0
    /\ Len(call[c].providers) = 2
    /\ call[c].providers[1].address = ""
    /\ call[c].providers[1].sharePercent > 0
    /\ call[c].providers[2].address # ""
    /\ call[c].providers[2].sharePercent > 0
    /\ call[c].results = <<>>
    /\ findEntry(entries, call[c].ledgerEntryId) # 0
    /\ distributionsOf(call[c].ledgerEntryId) = <<>>

\* C22 (SpecDist): when distributeRevenue returns, its results are one per
\* non-skipped recipient, in input order; each is either a success with the
\* txid and the amount sent or a failure with the error and the intended
\* amount, and every success has its Distribution on the entry.
C22_OneResultPerAttempt ==
  \A c \in Reqs :
    LET f == call[c]
        e == expectedAttempts(f)
        ds == distributionsOf(f.ledgerEntryId)
        successes == SelectSeq(f.results, LAMBDA x : x.error = Null)
    IN f.pc = "done" =>
         /\ Len(f.results) = Len(e)
         /\ \A k \in 1..Len(e) :
              /\ f.results[k].name = e[k].name
              /\ f.results[k].amount =
                   toString(providerAmountOf(f.distributable, e[k]))
              /\ \/ f.results[k].txid # Null /\ f.results[k].error = Null
                 \/ f.results[k].txid = Null /\ f.results[k].error # Null
         /\ findEntry(entries, f.ledgerEntryId) # 0 =>
              /\ Len(ds) = Len(successes)
              /\ \A k \in 1..Len(ds) :
                   /\ ds[k].txid = successes[k].txid
                   /\ ds[k].toName = successes[k].name
                   /\ ds[k].amount = successes[k].amount

\* a success followed by a failure, both in the returned list
C22_Witness ==
  \E c \in Reqs :
    /\ call[c].pc = "done"
    /\ Len(call[c].results) = 2
    /\ call[c].results[1].txid # Null
    /\ call[c].results[2].error # Null
    /\ call[c].results[1].name # call[c].results[2].name
    /\ Len(distributionsOf(call[c].ledgerEntryId)) = 1

\* C23 (SpecGate): once the skill has run and the payment is recorded, the
\* handler answers 200 with success: true whatever happens while distributing:
\* a rejected transfer is an error entry in the distributions it returns, and
\* a throw of distributeRevenue itself is returned as the single distribution
\* {error}.
C23_DistributionErrorsContained ==
  \A r \in Reqs :
    (req[r].pc = "responded" /\ req[r].entryId # 0) =>
      /\ req[r].status = 200
      /\ req[r].body = "success"
      /\ req[r].x402 # NoPayment
      /\ req[r].executed
      /\ CASE call[r].pc = "threw" ->
                /\ Len(req[r].distributions) = 1
                /\ req[r].distributions[1].error # Null
           [] call[r].pc = "done" ->
                /\ Len(req[r].distributions) = Len(call[r].results)
                /\ \A k \in 1..Len(call[r].results) :
                     req[r].distributions[k].error = call[r].results[k].error
           [] OTHER -> call[r].pc = "idle" /\ req[r].distributions = <<>>

\* distributeRevenue threw at once, and the client still got its 200
C23_Witness ==
  \E r \in Reqs :
    /\ req[r].pc = "responded"
    /\ req[r].status = 200
    /\ req[r].body = "success"
    /\ call[r].pc = "threw"
    /\ Len(req[r].distributions) = 1
    /\ req[r].distributions[1].error # Null
    /\ findEntry(entries, req[r].entryId) # 0

\* ------------------------------------------------------------------------
\* The direct txid proof (x-payment-txid)
\* ------------------------------------------------------------------------
\* C24: a request paying by direct txid is accepted whatever the lookup of
\* the txid came to: it goes on to execution with the txid of the header;
\* the payer is "unverified" when the lookup threw, "pending" when the
\* response was not ok, and the sender of the looked-up record when the
\* lookup succeeded ("unknown" if the record names none).
C24_LookupFailureAccepted ==
  \A r \in Reqs :
    req[r].lookup.kind # "none" =>
      /\ req[r].executed
      /\ req[r].status # 402
      /\ req[r].x402.txid = req[r].headers.txid
      /\ req[r].headers.txid # ""
      /\ req[r].lookup.kind = "threw" => req[r].x402.payer = "unverified"
      /\ req[r].lookup.kind = "not ok" => req[r].x402.payer = "pending"
      /\ req[r].lookup.kind = "ok" =>
            req[r].x402.payer =
              IF req[r].lookup.sender # "" THEN req[r].lookup.sender ELSE "unknown"

\* one request whose lookup threw and one whose lookup was not ok, both
\* answered 200
C24_Witness ==
  /\ req["r1"].lookup.kind = "threw" /\ req["r1"].x402.payer = "unverified"
  /\ req["r1"].pc = "responded" /\ req["r1"].status = 200
  /\ req["r2"].lookup.kind = "not ok" /\ req["r2"].x402.payer = "pending"
  /\ req["r2"].pc = "responded" /\ req["r2"].status = 200

\* ------------------------------------------------------------------------
\* Verification of a proof is read-only
\* ------------------------------------------------------------------------
\* the step in which the gate accepts a yield proof or a direct txid of r
acceptsUnsignedProof(r) ==
  /\ req[r].pc \in {"new", "lookup"}
  /\ req'[r].pc = "executing"
  /\ req'[r].x402.yieldPowered \/ req'[r].lookup.kind # "none"

\* C25: the step in which the gate accepts a yield proof or a direct txid
\* starts no transfer and leaves the yield balance, the ledger and the
\* ledger file as they were: the gate does not debit the yield account.
C25_VerificationReadOnly ==
  [][\A r \in Reqs :
       acceptsUnsignedProof(r) =>
         /\ simulatedYield' = simulatedYield
         /\ entries' = entries
         /\ file' = file
         /\ call' = call]_vars

\* a yield proof and a direct txid have both been accepted, and nothing was
\* debited or recorded
C25_Witness ==
  /\ req["r1"].pc = "executing" /\ req["r1"].x402.yieldPowered
  /\ req["r2"].pc = "executing" /\ req["r2"].lookup.kind = "ok"
  /\ simulatedYield = InitialYield
  /\ entries = <<>>

\* ------------------------------------------------------------------------
\* negotiationHistory (SpecBoard)
\* ------------------------------------------------------------------------
\* the reward every bounty of SpecBoard is posted with
PostedReward == toString(5000)

\* C26: an accepted update appends exactly one record whose oldReward is the
\* reward before the call and whose newReward is the reward after it, and no
\* other call touches reward or history; so the history of every bounty is a
\* chain from the posted reward to the current one.
C26_HistoryIsChain ==
  /\ \A k \in 1..Len(bounties) :
       LET h == bounties[k].negotiationHistory IN
       /\ h = <<>> => bounties[k].reward = PostedReward
       /\ h # <<>> => /\ h[1].oldReward = PostedReward
                      /\ h[Len(h)].newReward = bounties[k].reward
       /\ \A i \in 2..Len(h) : h[i].oldReward = h[i - 1].newReward
  /\ \A k \in 1..Len(boardLog.before) :
       LET h == bounties[k].negotiationHistory
           hBefore == boardLog.before[k].negotiationHistory IN
       IF boardLog.op = "update" /\ boardLog.result = "ok" /\ k = addressed
       THEN /\ Len(h) = Len(hBefore) + 1
            /\ SubSeq(h, 1, Len(hBefore)) = hBefore
            /\ h[Len(h)].oldReward = boardLog.before[k].reward
            /\ h[Len(h)].newReward = bounties[k].reward
            /\ bounties[k].reward =
                 IF boardLog.updates.reward # NoReward
                 THEN boardLog.updates.reward ELSE boardLog.before[k].reward
       ELSE /\ h = hBefore
            /\ bounties[k].reward = boardLog.before[k].reward

\* posted at 5000, raised to 8000, then lowered to 3000 by the poster
C26_Witness ==
  /\ boardLog.op = "update" /\ boardLog.result = "ok" /\ addressed # 0
  /\ Len(bounties[addressed].negotiationHistory) = 2
  /\ bounties[addressed].negotiationHistory[1].oldReward = toString(5000)
  /\ bounties[addressed].negotiationHistory[1].newReward = toString(8000)
  /\ bounties[addressed].negotiationHistory[2].oldReward = toString(8000)
  /\ bounties[addressed].negotiationHistory[2].newReward = toString(3000)
  /\ bounties[addressed].reward = toString(3000)

\* ------------------------------------------------------------------------
\* One execute request whose client may go away (SpecRunToCompletion)
\* ------------------------------------------------------------------------
TheRequest == "r1"

\* faulty variant: a pending distribution is dropped when the socket closes
cancelOnClientGone(f) ==
  IF f.pc = "await" THEN [f EXCEPT !.pc = "cancelled"] ELSE f

\* what a closed socket does to the handler's distributeRevenue call: the
\* handler registers no 'close' or 'aborted' listener and passes no signal
clientGone(f) == f

\* the client closes the connection while its request is being served
ClientGone ==
  /\ req[TheRequest].connected
  /\ req[TheRequest].pc \notin {"new", "responded"}
  /\ req' = [req EXCEPT ![TheRequest].connected = FALSE]
  /\ call' = [call EXCEPT ![TheRequest] = clientGone(@)]
  /\ UNCHANGED <<ledgerVars, configVars, x402Vars, demoVars, boardVars, yieldVars>>

RunArrive == Arrive(TheRequest)
RunLookupDone == LookupDone(TheRequest)
RunSettleDone == SettleDone(TheRequest)
RunExecuteRejected == ExecuteRejected(TheRequest)
RunExecuteResolved == ExecuteResolved(TheRequest)
RunSendResolved == GateSendResolved(TheRequest)
RunSendRejected == GateSendRejected(TheRequest)
RunDistributeRejected == DistributeRejected(TheRequest)
RunRespond == Respond(TheRequest)

NextRun ==
  \/ RunArrive
  \/ RunLookupDone
  \/ RunSettleDone
  \/ RunExecuteRejected
  \/ RunExecuteResolved
  \/ RunSendResolved
  \/ RunSendRejected
  \/ RunDistributeRejected
  \/ RunRespond
  \/ ClientGone

\* every sendSTX call that was made eventually returns or throws; nothing is
\* assumed about the client or about new requests arriving
TransfersSettle == WF_vars(RunSendResolved \/ RunSendRejected)

SpecRunToCompletion == InitGate /\ [][NextRun]_vars /\ TransfersSettle

\* C27: if every transfer call eventually returns or throws, a
\* distributeRevenue call that is waiting for a transfer eventually returns
\* with one outcome for every recipient that is not skipped, whether or not
\* the client is still connected.
C27_RunsToCompletion ==
  (call[TheRequest].pc = "await")
    ~> (/\ call[TheRequest].pc = "done"
        /\ Len(call[TheRequest].results) = Len(expectedAttempts(call[TheRequest])))

\* the client went away before the answer, and both payouts were still made
C27_Witness ==
  /\ ~req[TheRequest].connected
  /\ req[TheRequest].pc = "distributing"
  /\ call[TheRequest].pc = "done"
  /\ Len(call[TheRequest].results) = 2
  /\ \A k \in 1..2 : call[TheRequest].results[k].error = Null

\* ------------------------------------------------------------------------
\* encodePaymentHeader / decodePaymentHeader (hiro.js)
\* ------------------------------------------------------------------------
\* A text is a tuple of one-character strings, a buffer a tuple of bytes.
chars(str) == [i \in 1..Len(str) |-> SubSeq(str, i, i)]

\* the printable ASCII characters but the grave accent (code 96): codes
\* 32..95 and 97..126, in order
AsciiLow == " !\"#$%&'()*+,-./0123456789:;<=>?@ABCDEFGHIJKLMNOPQRSTUVWXYZ[\\]^_"
AsciiHigh == "abcdefghijklmnopqrstuvwxyz{|}~"
FirstLowCode == 32
FirstHighCode == 97

\* character -> code
AsciiCodes ==
  [c \in {SubSeq(AsciiLow, i, i) : i \in 1..Len(AsciiLow)}
          \cup {SubSeq(AsciiHigh, i, i) : i \in 1..Len(AsciiHigh)} |->
     IF \E i \in 1..Len(AsciiLow) : SubSeq(AsciiLow, i, i) = c
     THEN (CHOOSE i \in 1..Len(AsciiLow) : SubSeq(AsciiLow, i, i) = c)
          + FirstLowCode - 1
     ELSE (CHOOSE i \in 1..Len(AsciiHigh) : SubSeq(AsciiHigh, i, i) = c)
          + FirstHighCode - 1]

codeOf(c) == AsciiCodes[c]

charOf(b) ==
  IF b < FirstHighCode
  THEN SubSeq(AsciiLow, b - FirstLowCode + 1, b - FirstLowCode + 1)
  ELSE SubSeq(AsciiHigh, b - FirstHighCode + 1, b - FirstHighCode + 1)

\* the characters of a string literal between its quotes: a double quote and
\* a backslash are escaped with a backslash (no control character occurs in these payloads)
RECURSIVE escaped(_, _, _)
escaped(str, lo, hi) ==
  IF lo > hi THEN <<>>
  ELSE IF lo = hi
       THEN LET c == SubSeq(str, lo, lo)
            IN IF c = "\"" \/ c = "\\" THEN <<"\\", c>> ELSE <<c>>
  ELSE escaped(str, lo, (lo + hi) \div 2) \o escaped(str, (lo + hi) \div 2 + 1, hi)

quoted(str) == <<"\"">> \o escaped(str, 1, Len(str)) \o <<"\"">>

\* JSON.stringify(value) without indentation
RECURSIVE JSONtext(_)
JSONtext(x) ==
  LET RECURSIVE items(_, _)
      items(xs, i) ==
        IF i > Len(xs) THEN <<>>
        ELSE (IF i > 1 THEN <<",">> ELSE <<>>) \o JSONtext(xs[i]) \o items(xs, i + 1)
      RECURSIVE props(_, _)
      props(ps, i) ==
        IF i > Len(ps) THEN <<>>
        ELSE (IF i > 1 THEN <<",">> ELSE <<>>) \o quoted(ps[i].k) \o <<":">>
             \o JSONtext(ps[i].val) \o props(ps, i + 1)
  IN CASE x.t = "number" -> chars(decimal(x.v))
       [] x.t = "string" -> quoted(x.v)
       [] x.t = "boolean" -> chars(IF x.v THEN "true" ELSE "false")
       [] x.t = "null" -> chars("null")
       [] x.t = "array" -> <<"[">> \o items(x.v, 1) \o <<"]">>
       [] OTHER -> <<"{">> \o props(x.v, 1) \o <<"}">>

\* Buffer.from(text, "utf-8"): one byte per ASCII character
utf8Bytes(text) == [i \in 1..Len(text) |-> codeOf(text[i])]

\* buffer.toString("utf-8")
utf8Text(bytes) == [i \in 1..Len(bytes) |-> charOf(bytes[i])]

Base64Alphabet == "ABCDEFGHIJKLMNOPQRSTUVWXYZabcdefghijklmnopqrstuvwxyz0123456789+/"

sextetChar(n) == SubSeq(Base64Alphabet, n + 1, n + 1)

\* character -> the six bits it stands for
Sextets ==
  [c \in {sextetChar(n) : n \in 0..(Len(Base64Alphabet) - 1)} |->
     CHOOSE n \in 0..(Len(Base64Alphabet) - 1) : sextetChar(n) = c]

sextetOf(c) == Sextets[c]

\* faulty variant: the last, incomplete group of bytes is left out
toBase64NoTail(bytes) ==
  LET byte(j) == bytes[j]
      group(g) == byte(3 * g - 2) * 65536 + byte(3 * g - 1) * 256 + byte(3 * g)
  IN [i \in 1..(4 * (Len(bytes) \div 3)) |->
        LET g == (i + 3) \div 4
            k == (i - 1) % 4
        IN sextetChar(CASE k = 0 -> group(g) \div 262144
                        [] k = 1 -> (group(g) \div 4096) % 64
                        [] k = 2 -> (group(g) \div 64) % 64
                        [] OTHER -> group(g) % 64)]

\* buffer.toString("base64"): three bytes make four characters; a last group
\* of one or two bytes is padded with "="
toBase64(bytes) ==
  LET n == Len(bytes)
      byte(j) == IF j <= n THEN bytes[j] ELSE 0
      group(g) == byte(3 * g - 2) * 65536 + byte(3 * g - 1) * 256 + byte(3 * g)
  IN [i \in 1..(4 * ((n + 2) \div 3)) |->
        LET g == (i + 3) \div 4
            k == (i - 1) % 4
        IN IF (k = 2 /\ 3 * g - 1 > n) \/ (k = 3 /\ 3 * g > n) THEN "="
           ELSE sextetChar(CASE k = 0 -> group(g) \div 262144
                             [] k = 1 -> (group(g) \div 4096) % 64
                             [] k = 2 -> (group(g) \div 64) % 64
                             [] OTHER -> group(g) % 64)]

\* Buffer.from(header, "base64"): decoding stops at the first "="; four
\* characters make three bytes, a tail of two or three makes one or two
fromBase64(header) ==
  LET data == SelectSeq(header, LAMBDA c : c # "=")
      m == Len(data)
      sextet(j) == IF j <= m THEN sextetOf(data[j]) ELSE 0
      group(g) == sextet(4 * g - 3) * 262144 + sextet(4 * g - 2) * 4096
                  + sextet(4 * g - 1) * 64 + sextet(4 * g)
      n == 3 * (m \div 4) + (IF m % 4 = 2 THEN 1 ELSE IF m % 4 = 3 THEN 2 ELSE 0)
  IN [i \in 1..n |->
        LET g == (i + 2) \div 3
            k == (i - 1) % 3
        IN CASE k = 0 -> group(g) \div 65536
             [] k = 1 -> (group(g) \div 256) % 256
             [] OTHER -> group(g) % 256]

\* JSON.parse: ok, the value and the place after it; not ok on any text that
\* is not one JSON value
ParseFailed == [ok |-> FALSE, value |-> JNull, next |-> 0]
parsed(value, next) == [ok |-> TRUE, value |-> value, next |-> next]

isDigit(c) == \E d \in 1..10 : SubSeq(DecimalDigits, d, d) = c
digitValue(c) == (CHOOSE d \in 1..10 : SubSeq(DecimalDigits, d, d) = c) - 1

\* the digits from place i on
RECURSIVE parseDigits(_, _, _)
parseDigits(text, i, acc) ==
  IF i <= Len(text) /\ isDigit(text[i])
  THEN parseDigits(text, i + 1, acc * 10 + digitValue(text[i]))
  ELSE [value |-> acc, next |-> i]

\* the string made of the characters t[lo..hi]
RECURSIVE join(_, _, _)
join(t, lo, hi) ==
  IF lo > hi THEN ""
  ELSE IF lo = hi THEN t[lo]
  ELSE join(t, lo, (lo + hi) \div 2) \o join(t, (lo + hi) \div 2 + 1, hi)

\* the number of backslashes that stand directly before place j, from place
\* i on
backslashesBefore(text, i, j) ==
  CHOOSE m \in 0..(j - i) :
    /\ \A x \in (j - m)..(j - 1) : text[x] = "\\"
    /\ j - m = i \/ text[j - m - 1] # "\\"

\* a string literal whose first character stands at place i: it ends at the
\* first quote that no backslash escapes; only the escapes of a quote and of
\* a backslash are read
parseString(text, i) ==
  LET closes(j) == text[j] = "\"" /\ backslashesBefore(text, i, j) % 2 = 0
      escapes(j) == text[j] = "\\" /\ backslashesBefore(text, i, j) % 2 = 0
  IN IF ~\E j \in i..Len(text) : closes(j) THEN ParseFailed
     ELSE LET end == CHOOSE j \in i..Len(text) :
                       closes(j) /\ \A x \in i..(j - 1) : ~closes(x)
              kept == SelectSeq([x \in 1..(end - i) |-> i + x - 1],
                                LAMBDA j : ~escapes(j))
          IN IF \E j \in i..(end - 1) :
                  escapes(j) /\ text[j + 1] # "\"" /\ text[j + 1] # "\\"
             THEN ParseFailed
             ELSE parsed(JString(join([x \in 1..Len(kept) |-> text[kept[x]]],
                                      1, Len(kept))),
                         end + 1)

startsWith(text, i, word) ==
  /\ i + Len(word) - 1 <= Len(text)
  /\ \A j \in 1..Len(word) : text[i + j - 1] = SubSeq(word, j, j)

RECURSIVE parseValue(_, _)
parseValue(text, i) ==
  LET RECURSIVE parseItems(_, _)
      parseItems(j, acc) ==
        LET item == parseValue(text, j) IN
        IF ~item.ok \/ item.next > Len(text) THEN ParseFailed
        ELSE IF text[item.next] = ","
             THEN parseItems(item.next + 1, Append(acc, item.value))
        ELSE IF text[item.next] = "]"
             THEN parsed(JArray(Append(acc, item.value)), item.next + 1)
        ELSE ParseFailed
      RECURSIVE parseProps(_, _)
      parseProps(j, acc) ==
        IF j > Len(text) \/ text[j] # "\"" THEN ParseFailed
        ELSE LET key == parseString(text, j + 1) IN
             IF ~key.ok \/ key.next > Len(text) \/ text[key.next] # ":"
             THEN ParseFailed
             ELSE LET val == parseValue(text, key.next + 1) IN
                  IF ~val.ok \/ val.next > Len(text) THEN ParseFailed
                  ELSE IF text[val.next] = ","
                       THEN parseProps(val.next + 1,
                                       Append(acc, prop(key.value.v, val.value)))
                  ELSE IF text[val.next] = "}"
                       THEN parsed(JObject(Append(acc, prop(key.value.v, val.value))),
                                   val.next + 1)
                  ELSE ParseFailed
  IN IF i > Len(text) THEN ParseFailed
     ELSE CASE text[i] = "{" ->
                 IF i + 1 <= Len(text) /\ text[i + 1] = "}"
                 THEN parsed(JObject(<<>>), i + 2)
                 ELSE parseProps(i + 1, <<>>)
            [] text[i] = "[" ->
                 IF i + 1 <= Len(text) /\ text[i + 1] = "]"
                 THEN parsed(JArray(<<>>), i + 2)
                 ELSE parseItems(i + 1, <<>>)
            [] text[i] = "\"" -> parseString(text, i + 1)
            [] isDigit(text[i]) ->
                 LET d == parseDigits(text, i, 0) IN parsed(JNumber(d.value), d.next)
            [] text[i] = "-" ->
                 IF i + 1 <= Len(text) /\ isDigit(text[i + 1])
                 THEN LET d == parseDigits(text, i + 1, 0)
                      IN parsed(JNumber(-d.value), d.next)
                 ELSE ParseFailed
            [] startsWith(text, i, "true") -> parsed(JBoolean(TRUE), i + 4)
            [] startsWith(text, i, "false") -> parsed(JBoolean(FALSE), i + 5)
            [] startsWith(text, i, "null") -> parsed(JNull, i + 4)
            [] OTHER -> ParseFailed

JSONparseText(text) ==
  LET r == parseValue(text, 1)
  IN IF r.ok /\ r.next = Len(text) + 1 THEN r ELSE ParseFailed

\* encodePaymentHeader(payload)
encodePaymentHeader(payload) == toBase64(utf8Bytes(JSONtext(payload)))

\* decodePaymentHeader(headerValue): the value, or a throw
decodePaymentHeader(headerValue) ==
  LET r == JSONparseText(utf8Text(fromBase64(headerValue)))
  IN [done |-> TRUE, threw |-> ~r.ok, value |-> r.value]

\* ------------------------------------------------------------------------
\* SpecX402: the helpers called on their own, on the 402 path and in the test
\* (one payload per behaviour: built, encoded, decoded)
\* ------------------------------------------------------------------------
\* config.platformAddress after validateConfig: present
PlatformAddresses == {"ST1PLATFORM", "SP2PLATFORM"}
Networks == {"mainnet", "testnet"}
AssetNames == {"STX", "sBTC", "USDCx"}
\* prices of the registry are strings; the parameter may also be a number
PriceInputs == {JString("10000"), JNumber(800)}
Descriptions == {"Alpha Leak", "Say \"hi\"", "C:\\x"}
TransactionHexes == {"", "a", "aabb", "00aabbccd"}

\* acceptedAssets lists: up to MaxAssets options, no asset twice
AssetLists ==
  UNION { { [k \in 1..n |-> [asset |-> f[k], amount |-> a[k]]] :
              f \in {g \in [1..n -> AssetNames] :
                       \A i, j \in 1..n : i # j => g[i] # g[j]},
              a \in [1..n -> PriceInputs] } : n \in 0..MaxAssets }

AcceptedAssetsInputs ==
  {NoAcceptedAssets} \cup { [given |-> TRUE, list |-> l] : l \in AssetLists }

x402Unchanged ==
  UNCHANGED <<ledgerVars, configVars, boardVars, demoVars, req, call, yieldVars>>

BuildPaymentRequiredCall ==
  /\ wire.op = "none"
  /\ \E payTo \in PlatformAddresses, amount \in PriceInputs, asset \in {"STX", "sBTC"},
        description \in Descriptions, acceptedAssets \in AcceptedAssetsInputs,
        network \in Networks :
       /\ (acceptedAssets.given /\ Len(acceptedAssets.list) > 0) =>
            (amount = JString("10000") /\ asset = "STX")     \* not read then
       /\ wire' = [NoWire EXCEPT
                    !.op = "buildPaymentRequired",
                    !.input = [payTo |-> payTo, amount |-> amount, asset |-> asset,
                               acceptedAssets |-> acceptedAssets],
                    !.payload = buildPaymentRequired(
                                  [payTo |-> payTo, amount |-> amount,
                                   resource |-> "/skills/alpha-leak/execute",
                                   description |-> description, asset |-> asset,
                                   acceptedAssets |-> acceptedAssets,
                                   maxTimeoutSeconds |-> 300], network)]
  /\ x402Unchanged

\* the gate without payment-signature for a skill with several assets:
\* header payment-required and status 402
HandleMultiAsset402 ==
  /\ wire.op = "none"
  /\ \E platformAddress \in PlatformAddresses, description \in Descriptions,
        acceptedAssets \in AcceptedAssetsInputs, network \in Networks :
       /\ acceptedAssets.given
       /\ Len(acceptedAssets.list) > 1
       /\ LET paymentRequired ==
                multiAssetRequired("/skills/alpha-leak/execute", description,
                                   acceptedAssets, network, platformAddress)
          IN wire' = [NoWire EXCEPT
                        !.op = "handleMultiAsset402",
                        !.input = [payTo |-> platformAddress,
                                   amount |-> acceptedAssets.list[1].amount,
                                   asset |-> acceptedAssets.list[1].asset,
                                   acceptedAssets |-> acceptedAssets],
                        !.payload = paymentRequired,
                        !.header = toBase64(utf8Bytes(JSONtext(paymentRequired))),
                        !.status = 402]
  /\ x402Unchanged

BuildPaymentPayloadCall ==
  /\ wire.op = "none"
  /\ \E transactionHex \in TransactionHexes :
       wire' = [NoWire EXCEPT !.op = "buildPaymentPayload",
                              !.payload = buildPaymentPayload(transactionHex)]
  /\ x402Unchanged

BuildPaymentResponseCall ==
  /\ wire.op = "none"
  /\ \E success \in BOOLEAN, txid \in {"", "0xt1"}, errorReason \in {"", "expired"} :
       LET responseObj == paymentResponseObj(success, txid, "stacks:1", errorReason)
       IN wire' = [NoWire EXCEPT !.op = "buildPaymentResponse",
                                 !.payload = responseObj,
                                 !.header = encodePaymentHeader(responseObj)]
  /\ x402Unchanged

\* the object of the test "encode/decode are inverse": { a: 1, b: [2, 3] }
TestObject ==
  JObject(<< prop("a", JNumber(1)),
             prop("b", JArray(<< JNumber(2), JNumber(3) >>)) >>)

EncodeDecodeTest ==
  /\ wire.op = "none"
  /\ wire' = [NoWire EXCEPT
                !.op = "test", !.payload = TestObject,
                !.header = encodePaymentHeader(TestObject),
                !.decoded = decodePaymentHeader(encodePaymentHeader(TestObject))]
  /\ x402Unchanged

EncodePaymentHeaderCall ==
  /\ wire.op # "none"
  /\ wire.header = <<>>
  /\ wire' = [wire EXCEPT !.header = encodePaymentHeader(wire.payload)]
  /\ x402Unchanged

DecodePaymentHeaderCall ==
  /\ wire.header # <<>>
  /\ ~wire.decoded.done
  /\ wire' = [wire EXCEPT !.decoded = decodePaymentHeader(wire.header)]
  /\ x402Unchanged

InitX402 ==
  /\ InitCommon
  /\ platformFeePercent = DefaultFeePercent
  /\ providerAddress = AllProviders

NextX402 ==
  \/ BuildPaymentRequiredCall
  \/ HandleMultiAsset402
  \/ BuildPaymentPayloadCall
  \/ BuildPaymentResponseCall
  \/ EncodeDecodeTest
  \/ EncodePaymentHeaderCall
  \/ DecodePaymentHeaderCall

SpecX402 == InitX402 /\ [][NextX402]_vars

\* the options a requirement should carry: the accepted assets when some are
\* given, otherwise the single asset and amount
expectedOptions(input) ==
  IF input.acceptedAssets.given /\ Len(input.acceptedAssets.list) > 0
  THEN input.acceptedAssets.list
  ELSE << [asset |-> input.asset, amount |-> input.amount] >>

\* the number a decimal string stands for
amountOf(str) == parseDigits(chars(str), 1, 0).value

\* C28: a payment requirement built by buildPaymentRequired or by the
\* multi-asset 402 has a non-empty accepts list, one option for a single asset
\* and one per accepted asset otherwise, in order; every option has scheme
\* "exact", the asset, that asset's own amount as a positive decimal string,
\* and the payee address.
C28_RequirementOptions ==
  wire.op \in {"buildPaymentRequired", "handleMultiAsset402"} =>
    LET accepts == member(wire.payload, "accepts").v
        expected == expectedOptions(wire.input)
    IN /\ Len(accepts) >= 1
       /\ Len(accepts) = Len(expected)
       /\ \A k \in 1..Len(expected) :
            /\ member(accepts[k], "scheme") = JString("exact")
            /\ member(accepts[k], "asset") = JString(expected[k].asset)
            /\ member(accepts[k], "amount") = JString(StringOf(expected[k].amount))
            /\ amountOf(member(accepts[k], "amount").v) > 0
            /\ member(accepts[k], "payTo") = JString(wire.input.payTo)
            /\ wire.input.payTo # ""

\* the 402 of a skill priced in STX and in sBTC: two options, each with its
\* own amount
C28_Witness ==
  /\ wire.op = "handleMultiAsset402"
  /\ wire.status = 402
  /\ Len(member(wire.payload, "accepts").v) = 2
  /\ member(member(wire.payload, "accepts").v[1], "asset") = JString("STX")
  /\ member(member(wire.payload, "accepts").v[1], "amount") = JString("10000")
  /\ member(member(wire.payload, "accepts").v[2], "asset") = JString("sBTC")
  /\ member(member(wire.payload, "accepts").v[2], "amount") = JString("800")

\* C29: decoding the header that encodePaymentHeader made of a payload does
\* not throw and gives the payload back.
C29_DecodeInvertsEncode ==
  (wire.decoded.done /\ wire.header = encodePaymentHeader(wire.payload)) =>
    /\ ~wire.decoded.threw
    /\ wire.decoded.value = wire.payload

\* a requirement whose description holds quotes, through a padded header
C29_Witness ==
  /\ wire.op = "buildPaymentRequired"
  /\ wire.decoded.done
  /\ ~wire.decoded.threw
  /\ wire.decoded.value = wire.payload
  /\ member(member(wire.payload, "resource"), "description") = JString("Say \"hi\"")
  /\ Len(member(wire.payload, "accepts").v) = 2
  /\ wire.header[Len(wire.header)] = "="

\* ------------------------------------------------------------------------
\* accrue, then spend everything (SpecYield)
\* ------------------------------------------------------------------------
\* the last two calls were accrueSimulatedYield(a) with a >= 0 on a balance
\* b >= 0, and spendSimulatedYield of exactly the balance that left
accruedThenSpentAll ==
  /\ yieldLog.prev.op = "accrue"
  /\ yieldLog.prev.before >= 0
  /\ yieldLog.prev.amount >= 0
  /\ yieldLog.last.op = "spend"
  /\ yieldLog.last.before = yieldLog.prev.before + yieldLog.prev.amount
  /\ yieldLog.last.amount = yieldLog.last.before

\* C30: for b >= 0 and a >= 0, accrue(a) followed by a spend of exactly the
\* resulting balance b + a succeeds and leaves (and reports) 0.
C30_AccrueThenSpendAll ==
  accruedThenSpentAll =>
    /\ yieldLog.last.result = [success |-> TRUE, remaining |-> 0]
    /\ simulatedYield = 0

\* spend(800) left 620; accrue(800) made it 1420 again; spend(1420) left 0
C30_Witness ==
  /\ accruedThenSpentAll
  /\ yieldLog.prev.before = 620
  /\ yieldLog.prev.amount = 800
  /\ yieldLog.last.amount = 1420
  /\ yieldLog.last.result.success
  /\ simulatedYield = 0

\* ------------------------------------------------------------------------
\* postBounty, getBounty, listBounties (SpecBoard)
\* ------------------------------------------------------------------------
\* the places of the bounties that pass the filter of the last call
passing ==
  {k \in 1..Len(bounties) :
     boardLog.filter = Null \/ bounties[k].status = boardLog.filter}

\* C31: a posted bounty is open and its id bounty-N is the id of no bounty
\* posted before; getBounty returns the one bounty with the id asked for, or
\* null when no bounty has it; listBounties returns, in board order, exactly
\* the bounties whose status equals the filter, and all of them without one.
C31_PostGetList ==
  /\ \A j, k \in 1..Len(bounties) : j # k => bounties[j].id # bounties[k].id
  /\ \A k \in 1..Len(bounties) : bounties[k].id = bountyIdOf(k)
  /\ (boardLog.op = "post" /\ boardLog.result = "ok") =>
       /\ Len(bounties) = Len(boardLog.before) + 1
       /\ bounties[Len(bounties)].status = "open"
       /\ bounties[Len(bounties)].id = boardLog.bountyId
       /\ \A k \in 1..Len(boardLog.before) :
            /\ bounties[k] = boardLog.before[k]
            /\ bounties[k].id # boardLog.bountyId
  /\ boardLog.op = "get" =>
       /\ bounties = boardLog.before
       /\ IF \E k \in 1..Len(bounties) : bounties[k].id = boardLog.bountyId
          THEN /\ Len(boardLog.returned) = 1
               /\ boardLog.returned[1].id = boardLog.bountyId
               /\ \E k \in 1..Len(bounties) : bounties[k] = boardLog.returned[1]
          ELSE boardLog.returned = <<>> /\ boardLog.result = Null
  /\ boardLog.op = "list" =>
       /\ bounties = boardLog.before
       /\ Len(boardLog.returned) = Cardinality(passing)
       /\ \A k \in passing : \E i \in 1..Len(boardLog.returned) :
            boardLog.returned[i] = bounties[k]
       /\ \A i, j \in 1..Len(boardLog.returned) :
            i < j => boardLog.returned[i].id[2] < boardLog.returned[j].id[2]

\* three bounties, the second one submitted; the list of the open ones holds
\* the first and the third
C31_Witness ==
  /\ boardLog.op = "list" /\ boardLog.filter = "open"
  /\ Len(bounties) = 3
  /\ bounties[2].status = "submitted"
  /\ Len(boardLog.returned) = 2
  /\ boardLog.returned[1].id = bountyIdOf(1)
  /\ boardLog.returned[2].id = bountyIdOf(3)

\* ------------------------------------------------------------------------
\* who can change a reward (SpecBoard)
\* ------------------------------------------------------------------------
rewardChanged ==
  /\ boardLog.op = "update"
  /\ boardLog.result = "ok"
  /\ addressed # 0
  /\ bounties[addressed].reward # boardLog.before[addressed].reward

\* C32: in every accepted updateBounty that changes the reward the caller
\* named itself as the bounty's postedBy; an update that supplies no postedBy
\* does not change the reward.
C32_OnlyPosterChangesReward ==
  rewardChanged =>
    /\ boardLog.updates.postedBy # Null
    /\ boardLog.updates.postedBy = boardLog.before[addressed].postedBy

\* ------------------------------------------------------------------------
\* status and submissions of a bounty (SpecBoard)
\* ------------------------------------------------------------------------
\* C33: for every bounty, status is open exactly when submissions is empty
\* and submitted exactly when it has one element; submissions never has more
\* than one element; a bounty that was submitted before a call is submitted,
\* with the same submission, after it.
C33_StatusFollowsSubmissions ==
  /\ \A k \in 1..Len(bounties) :
       /\ (bounties[k].status = "open") <=> (bounties[k].submissions = <<>>)
       /\ (bounties[k].status = "submitted") <=> (Len(bounties[k].submissions) = 1)
       /\ Len(bounties[k].submissions) <= 1
  /\ Len(boardLog.before) <= Len(bounties)
  /\ \A k \in 1..Len(boardLog.before) :
       boardLog.before[k].status = "submitted" =>
         /\ bounties[k].status = "submitted"
         /\ bounties[k].submissions = boardLog.before[k].submissions

\* an update addressed to a submitted bounty, and a post after a submission,
\* left the submitted bounty submitted
C33_Witness ==
  /\ boardLog.op \in {"update", "post"}
  /\ \E k \in 1..Len(boardLog.before) :
       /\ boardLog.before[k].status = "submitted"
       /\ bounties[k].status = "submitted"
       /\ Len(bounties[k].submissions) = 1
       /\ boardLog.op = "update" => boardLog.bountyId = bounties[k].id

\* ------------------------------------------------------------------------
\* a payment reference presented twice (SpecGate)
\* ------------------------------------------------------------------------
\* C34: a payment reference is honoured at most once: no two incoming
\* ledger entries carry the same txid.
C34_ReferenceHonouredOnce ==
  \A i, j \in 1..Len(entries) :
    (i # j /\ entries[i].type = "incoming" /\ entries[j].type = "incoming")
      => entries[i].txid # entries[j].txid

\* ------------------------------------------------------------------------
\* payout loops of several requests in flight (SpecGate)
\* ------------------------------------------------------------------------
\* the transfers of request r that were broadcast
payouts(r) == SelectSeq(call[r].results, LAMBDA d : d.error = Null)

\* C35: with several paid executions in flight, a request's ledger entry is
\* recorded before a transfer for it is attempted, requests have entries of
\* their own, and the distributions of a request's entry are exactly the
\* transfers broadcast for that request, in order.
C35_PayoutsStayWithTheirEntry ==
  /\ \A r \in Reqs :
       IF req[r].entryId = 0
       THEN call[r].pc = "idle"
       ELSE LET e == req[r].entryId IN
            /\ e \in 1..Len(entries)
            /\ entries[e].id = e
            /\ entries[e].type = "incoming"
            /\ entries[e].txid = req[r].x402.txid
            /\ entries[e].skillId = req[r].skillId
            /\ call[r].pc # "idle" => call[r].ledgerEntryId = e
            /\ Len(entries[e].distributions) = Len(payouts(r))
            /\ \A k \in 1..Len(payouts(r)) :
                 /\ entries[e].distributions[k].amount = payouts(r)[k].amount
                 /\ entries[e].distributions[k].toName = payouts(r)[k].name
                 /\ entries[e].distributions[k].txid = payouts(r)[k].txid
  /\ \A r, t \in Reqs :
       (r # t /\ req[r].entryId # 0) => req[r].entryId # req[t].entryId

\* both requests are between two transfers of their loops, one paying out
\* of 5000 and the other out of 10000
C35_Witness ==
  /\ \A r \in Reqs :
       /\ req[r].pc = "distributing"
       /\ call[r].pc = "await"
       /\ Len(payouts(r)) = 1
  /\ call["r1"].total # call["r2"].total

\* ------------------------------------------------------------------------
\* SpecDemo: POST /demo/start, POST /demo/stop, GET /demo/status and the
\* close and error events of the spawned children
\* ------------------------------------------------------------------------
MaxDemoOps == 5

\* a child is "running" from spawn until its close handler runs, "failed"
\* when spawn could not start it (its error event is pending), "terminating"
\* once SIGTERM was sent to it (its close event is pending), "errored" after
\* its error handler ran (a close event may still follow), and "closed" after
\* its close handler ran
SpawnOutcomes == {"running", "failed"}

\* the children that run and were not told to end
alive(cs) == {p \in 1..Len(cs) : cs[p] = "running"}

demoCall(op, status) ==
  [op |-> op, n |-> demoLog.n + 1, status |-> status, running |-> demoRunning,
   aliveBefore |-> alive(children)]

demoUnchanged ==
  UNCHANGED <<ledgerVars, configVars, boardVars, x402Vars, req, call, yieldVars>>

\* POST /demo/start: 409 while demoRunning, else set the flag, answer, spawn
\* and register the handlers, all in one synchronous stretch
DemoStart ==
  /\ demoLog.n < MaxDemoOps
  /\ IF demoRunning
     THEN /\ demoLog' = demoCall("start", 409)
          /\ UNCHANGED <<demoRunning, demoProcess, children>>
     ELSE \E outcome \in SpawnOutcomes :
            /\ demoRunning' = TRUE
            /\ children' = Append(children, outcome)
            /\ demoProcess' = Len(children) + 1
            /\ demoLog' = demoCall("start", 200)
  /\ demoUnchanged

\* child.kill("SIGTERM"): the signal is sent, the child ends later
kill(cs, p) == [cs EXCEPT ![p] = IF @ = "running" THEN "terminating" ELSE @]

\* POST /demo/stop
DemoStop ==
  /\ demoLog.n < MaxDemoOps
  /\ IF ~demoRunning \/ demoProcess = 0
     THEN /\ demoLog' = demoCall("stop", 400)
          /\ UNCHANGED <<demoRunning, demoProcess, children>>
     ELSE /\ children' = kill(children, demoProcess)
          /\ demoRunning' = FALSE
          /\ demoProcess' = 0
          /\ demoLog' = demoCall("stop", 200)
  /\ demoUnchanged

\* GET /demo/status
DemoStatus ==
  /\ demoLog.op # "status"
  /\ demoLog' = [demoCall("status", 200) EXCEPT !.n = demoLog.n]
  /\ UNCHANGED <<demoRunning, demoProcess, children>>
  /\ demoUnchanged

\* demoProcess.on("close", ..) of child p: the child ended by itself, after
\* SIGTERM, or after a failed spawn
ChildClose(p) ==
  /\ p \in 1..Len(children)
  /\ children[p] \in {"running", "terminating", "errored"}
  /\ children' = [children EXCEPT ![p] = "closed"]
  /\ demoRunning' = FALSE
  /\ demoProcess' = 0
  /\ demoLog' = [demoCall("close", 0) EXCEPT !.n = demoLog.n]
  /\ demoUnchanged

\* demoProcess.on("error", ..) of child p: it could not be spawned
ChildError(p) ==
  /\ p \in 1..Len(children)
  /\ children[p] = "failed"
  /\ children' = [children EXCEPT ![p] = "errored"]
  /\ demoRunning' = FALSE
  /\ demoProcess' = 0
  /\ demoLog' = [demoCall("error", 0) EXCEPT !.n = demoLog.n]
  /\ demoUnchanged

InitDemo ==
  /\ InitCommon
  /\ platformFeePercent = DefaultFeePercent
  /\ providerAddress = AllProviders

NextDemo ==
  \/ DemoStart
  \/ DemoStop
  \/ DemoStatus
  \/ \E p \in 1..MaxDemoOps : ChildClose(p) \/ ChildError(p)

SpecDemo == InitDemo /\ [][NextDemo]_vars

\* C36: at most one demo child is alive at any time; demoRunning is true
\* while one is alive, and only while the child in demoProcess runs or is
\* being started; POST /demo/start while a demo runs is refused with 409; for
\* every interleaving of start, stop and the close and error events of
\* earlier children.
C36_OneDemoAtATime ==
  /\ Cardinality(alive(children)) <= 1
  /\ alive(children) # {} => demoRunning
  /\ demoRunning => (demoProcess # 0 /\ children[demoProcess] \in SpawnOutcomes)
  /\ (demoLog.op = "start" /\ demoLog.aliveBefore # {}) => demoLog.status = 409

\* ------------------------------------------------------------------------
\* recordDistribution with an id no entry has (SpecLedgerOps)
\* ------------------------------------------------------------------------
\* a step that is a recordDistribution call whose ledgerEntryId matches no
\* entry of the ledger it is called on
unmatchedDistribution ==
  /\ ledgerLog'.n = ledgerLog.n + 1
  /\ ledgerLog'.op = "distribution"
  /\ \A k \in 1..Len(entries) : entries[k].id # ledgerLog'.id

\* C37: recordDistribution called with a ledgerEntryId that matches no entry
\* appends nothing: the entries, their distributions lists and the persisted
\* ledger file are as they were before the call.
C37_UnmatchedAppendsNothing ==
  [][unmatchedDistribution => (entries' = entries /\ file' = file)]_vars

\* the call named entry 2 of a ledger that holds entry 1 only, whose file
\* had been written
C37_Witness ==
  /\ ledgerLog.op = "distribution"
  /\ ledgerLog.id = 2
  /\ Len(ledgerLog.before) = 1
  /\ entries = ledgerLog.before
  /\ ~ledgerLog.found
  /\ file \notin {NoFile, CorruptFile}

\* ------------------------------------------------------------------------
\* execute requests for a skill that is not registered (SpecGate)
\* ------------------------------------------------------------------------
\* request r has arrived and names a skill id the registry does not hold
unknownSkill(r) ==
  /\ req[r].pc # "new"
  /\ \A k \in 1..Len(SKILLS) : SKILLS[k].id # req[r].skillId

\* C38: an execute request for an unregistered skill id is answered with 404
\* whatever proof headers it carries: no payment is attached, no lookup or
\* settlement is started, the skill is not executed, no ledger entry bears
\* the id and no distribution is made for it.
C38_UnknownSkillIs404 ==
  /\ \A r \in Reqs :
       unknownSkill(r) =>
         /\ req[r].pc = "responded"
         /\ req[r].status = 404
         /\ req[r].x402 = NoPayment
         /\ req[r].lookup = NoLookup
         /\ ~req[r].executed
         /\ req[r].entryId = 0
         /\ req[r].distributions = <<>>
         /\ call[r] = IdleCall
  /\ \A k \in 1..Len(entries) :
       \E j \in 1..Len(SKILLS) : SKILLS[j].id = entries[k].skillId
  /\ Len(entries) <= Cardinality({r \in Reqs : req[r].executed})

\* an unknown skill asked for with a payment txid and with a yield proof
C38_Witness ==
  /\ unknownSkill("r1") /\ unknownSkill("r2")
  /\ req["r1"].headers.txid # "" /\ req["r1"].headers.yield = ""
  /\ req["r2"].headers.yield # ""
  /\ req["r1"].status = 404 /\ req["r2"].status = 404
  /\ entries = <<>>
====
